---- MODULE Spec2Model ----
(***************************************************************************)
(* Email automation pipeline: inbound email -> Analyzer (classifier call,  *)
(* parse, persist) -> Decision Engine (rule table, status write) ->        *)
(* Workflow Executor (priority, gated acknowledgment) -> Mail Sender,      *)
(* with the Audit Logger recording each step.                              *)
(*                                                                         *)
(* Confidence scores are modelled in hundredths (0.7 is 70): the store     *)
(* keeps them as DECIMAL(3,2).                                             *)
(***************************************************************************)
EXTENDS Integers, Sequences, FiniteSets, TLC

\* ---------------------------------------------------------------------
\* Program constants
\* ---------------------------------------------------------------------

\* confidence_score DECIMAL(3,2): two decimals, so 1.0 is 100 hundredths
Scale == 100

\* config.app.confidenceThreshold default 0.7
DefaultThreshold == 70

\* the four classifications the Analyzer accepts
EmailTypes == {"RFQ/Bid Request", "Urgent Site Issue", "Invoice/Billing", "Unknown/Unclear"}

\* a type outside the enumeration, as a caller of applyRules may pass
OtherType == "Other"

RuleTypes == EmailTypes \cup {OtherType}

\* statuses that end the pipeline for an email
TerminalStatuses == {"Pending Review", "Finance Review", "Escalated", "Manual Review"}

\* validUrgency of parseResponse
UrgencyLevels == {"Low", "Medium", "High"}

\* AIAnalysisService.analyzeEmail (retry variant): const maxRetries = 2
AnalyzerMaxRetries == 2

\* config.app.maxRetries: parseInt(process.env.MAX_RETRIES) || 3
DefaultMaxRetries == 3

\* config.app.retryDelayMs: parseInt(process.env.RETRY_DELAY_MS) || 100
DefaultRetryDelayMs == 100

\* EmailSender.sendWithRetry: the factor of Math.pow(2, attempt - 1) * 1000
SendBaseDelayMs == 1000

\* AIAnalysisService.analyzeEmail (retry variant): setTimeout(resolve, 2000) between attempts
RetryDelayMs == 2000

\* EmailSender.maxRetries = 2, so maxRetries + 1 transport attempts
SenderMaxRetries == 2

\* the fallback confidence 0.5 the strict Analyzer hands to the Decision Engine
FallbackConfidence == 50

\* ---------------------------------------------------------------------
\* Bounds of the model
\* ---------------------------------------------------------------------

\* evaluations of the rule table on one input in the rule-table specification
MaxEvals == 2

\* thresholds an operator may configure (CONFIDENCE_THRESHOLD), in hundredths
ThresholdSamples == {50, DefaultThreshold, 90}

\* Record Store calls that may fail (all retries used up) in one pipeline run
MaxStoreFailures == 2

\* confidence values a classifier response may report, in hundredths
\* (-0.3 and 1.7 break the classifier's contract)
RawConfidences == {-30, 0, 50, 69, 70, 90, 99, 100, 170}

\* urgency values a classifier response may report ("Bogus" is out of the enumeration)
RawUrgencies == {"Low", "High", "Bogus"}

\* what one classifier call may produce:
\*   fail    - timeout or transport error (the awaited promise rejects)
\*   empty   - a completion with no message content
\*   garbage - text without a usable JSON object (none found, unparsable, or
\*             email_type / urgency_level missing, or confidence_score not a number)
\*   json    - a JSON object with the three required fields
ClassifierOutcomes ==
  [kind : {"fail", "empty", "garbage"}, email_type : {"none"}, confidence_score : {0},
   urgency_level : {"none"}, deadline : {FALSE}]
  \cup
  [kind : {"json"}, email_type : RuleTypes, confidence_score : RawConfidences,
   urgency_level : RawUrgencies, deadline : BOOLEAN]

\* longest subject and body text among the payloads validated
MaxTextLen == 2

\* longest text given to sanitizeInput
MaxSanitizeLen == 4

\* largest retry budget retryOperation is called with
MaxRetryBudget == 5

\* the base delays retryOperation is configured with, in ms
RetryDelaySamples == {1, DefaultRetryDelayMs, 250}

\* what the operation passed to retryOperation returns when it does not throw
RetryValues == {"row", "void"}

\* ---------------------------------------------------------------------
\* State
\* ---------------------------------------------------------------------
VARIABLES
  confidenceThreshold,  \* DecisionEngine.confidenceThreshold
  ruleIn,               \* input of the rule table under evaluation
  ruleOut,              \* decisions returned by successive evaluations
  variant,              \* which analyzeEmail is deployed: "retry" or "strict"
  ingestion,            \* which /inbound route and ingestion service are deployed:
                        \* "background" (respond, then store) or "awaited" (store, then respond)
  payload,              \* the request body of the webhook call
  validation,           \* what validatePayload returned for it
  httpResponse,         \* the response sent to the webhook caller
  sanitized,            \* results of successive sanitizeInput calls on payload.body
  emailStatus,          \* emails.status of the email ("none": no row yet)
  emailPriority,        \* emails.priority ("null" until a handler sets it)
  analysisRow,          \* the email_analysis row of the email, or NoAnalysis
  workflows,            \* workflows rows of the email, in insertion order
  audit,                \* action_type of the audit_logs rows, in insertion order
  storeFailures,        \* Record Store calls that failed for good so far
  mailAttempts,         \* transporter.sendMail calls made
  mailDelivered,        \* transporter.sendMail calls that succeeded
  mailWaits,            \* the delays sendWithRetry has waited between attempts, in ms
  template,             \* the body sendAIResponse sends and how its generation call ended
  classifierCalls,      \* classifier calls made
  classifierFailures,   \* classifier calls that timed out or failed in transport
  response,             \* what the last classifier call produced
  late,                 \* classifier requests left in flight by the hard timeout, and the
                        \* responses to them that have arrived since
  pcA,                  \* position of analyzeEmail
  attempt,              \* analyzeEmail's loop counter
  waits,                \* the delays analyzeEmail has waited between attempts, in ms
  parsed,               \* analyzeEmail's local `analysis` (parseResponse result)
  pcD,                  \* position of makeDecision
  decisionArgs,         \* (email_type, confidence_score) makeDecision was called with
  decision,             \* makeDecision's local `decision` (applyRules result)
  decisionResult,       \* the decision object makeDecision returned
  pcW,                  \* position of executeWorkflow
  wAnalysis,            \* the analysis object passed to executeWorkflow
  wResult,              \* the handler's result, as built so far
  sendAttempt,          \* sendWithRetry's loop counter
  sendResult,           \* what sendWithRetry returned
  execResult,           \* what executeWorkflow returned
  retry                 \* one call of retryOperation: its budget, loop counter, waits and outcome

ruleVars == <<ruleIn, ruleOut>>

ingestVars == <<ingestion, payload, validation, httpResponse, sanitized>>

storeVars == <<emailStatus, emailPriority, analysisRow, workflows, audit, storeFailures>>

mailVars == <<mailAttempts, mailDelivered, mailWaits, template>>

classifierVars == <<classifierCalls, classifierFailures, response, late>>

analyzerVars == <<pcA, attempt, parsed, waits>>

decisionVars == <<pcD, decisionArgs, decision, decisionResult>>

workflowVars == <<pcW, wAnalysis, wResult, sendAttempt, sendResult, execResult>>

vars == <<confidenceThreshold, ruleIn, ruleOut, variant, ingestion, payload, validation,
          httpResponse, sanitized, emailStatus, emailPriority,
          analysisRow, workflows, audit, storeFailures, mailAttempts, mailDelivered,
          mailWaits, template,
          classifierCalls, classifierFailures, response, late, pcA, attempt, parsed, waits,
          pcD,
          decisionArgs, decision, decisionResult, pcW, wAnalysis, wResult, sendAttempt,
          sendResult, execResult, retry>>

NoInput == [email_type |-> "none", confidence_score |-> 0]

NoDecision == [automation_allowed |-> FALSE, status |-> "none", reason |-> "none"]

NoAnalysis == [email_type |-> "none", urgency_level |-> "none", confidence_score |-> 0,
               deadline |-> FALSE, reasoning |-> "none"]

NoResponse == [kind |-> "none", email_type |-> "none", confidence_score |-> 0,
               urgency_level |-> "none", deadline |-> FALSE]

\* no request abandoned by the timeout, no late response
NoLate == [pending |-> 0, discarded |-> 0]

NoResult == [success |-> FALSE, email_sent |-> FALSE, actions_taken |-> <<>>]

\* JavaScript values of a payload field: a string is its sequence of characters; for a
\* value of another type `chars` is its conversion to a string
Undefined == [kind |-> "undefined", chars |-> <<"u", "n", "d", "e", "f", "i", "n", "e", "d">>]

NumberFive == [kind |-> "number", chars |-> <<"5">>]

Str(s) == [kind |-> "string", chars |-> s]

NoPayload == [is_null |-> TRUE, from_email |-> Undefined, subject |-> Undefined,
              body |-> Undefined]

NoValidation == [valid |-> FALSE, errors |-> <<"not validated">>]

NoReply == [status |-> 0, email_id |-> FALSE]

\* sendAIResponse has not generated a body
NoTemplate == [text |-> "none", call |-> "none"]

NoSend == [returned |-> FALSE, success |-> FALSE, attempt |-> 0]

NoExec == [returned |-> FALSE, success |-> FALSE]

\* retryOperation has not been called
NoRetry == [maxRetries |-> 0, retryDelayMs |-> 0, attempt |-> 0, calls |-> 0, waits |-> <<>>,
            outcome |-> "none", value |-> "none"]

\* ---------------------------------------------------------------------
\* Decision Engine: the rule table
\* ---------------------------------------------------------------------

\* applyRules with rule 2 tested before rule 1
applyRulesConfidenceFirst(email_type, confidence_score) ==
  IF confidence_score < confidenceThreshold
    THEN [automation_allowed |-> FALSE, status |-> "Manual Review", reason |-> "low confidence"]
  ELSE IF email_type = "Urgent Site Issue"
    THEN [automation_allowed |-> FALSE, status |-> "Escalated", reason |-> "urgent"]
  ELSE IF email_type = "Unknown/Unclear"
    THEN [automation_allowed |-> FALSE, status |-> "Manual Review", reason |-> "cannot classify"]
  ELSE IF email_type = "RFQ/Bid Request"
    THEN [automation_allowed |-> TRUE, status |-> "Pending Review", reason |-> "high confidence RFQ"]
  ELSE IF email_type = "Invoice/Billing"
    THEN [automation_allowed |-> TRUE, status |-> "Finance Review", reason |-> "high confidence invoice"]
  ELSE [automation_allowed |-> FALSE, status |-> "Manual Review", reason |-> "unknown type"]

\* applyRules with the confidence rule dropped for RFQ (rule 4 before rule 2)
applyRulesRFQFirst(email_type, confidence_score) ==
  IF email_type = "Urgent Site Issue"
    THEN [automation_allowed |-> FALSE, status |-> "Escalated", reason |-> "urgent"]
  ELSE IF email_type = "RFQ/Bid Request"
    THEN [automation_allowed |-> TRUE, status |-> "Pending Review", reason |-> "high confidence RFQ"]
  ELSE IF confidence_score < confidenceThreshold
    THEN [automation_allowed |-> FALSE, status |-> "Manual Review", reason |-> "low confidence"]
  ELSE IF email_type = "Unknown/Unclear"
    THEN [automation_allowed |-> FALSE, status |-> "Manual Review", reason |-> "cannot classify"]
  ELSE IF email_type = "Invoice/Billing"
    THEN [automation_allowed |-> TRUE, status |-> "Finance Review", reason |-> "high confidence invoice"]
  ELSE [automation_allowed |-> FALSE, status |-> "Manual Review", reason |-> "unknown type"]

\* applyRules with <= in place of < in rule 2
applyRulesInclusive(email_type, confidence_score) ==
  IF email_type = "Urgent Site Issue"
    THEN [automation_allowed |-> FALSE, status |-> "Escalated", reason |-> "urgent"]
  ELSE IF confidence_score <= confidenceThreshold
    THEN [automation_allowed |-> FALSE, status |-> "Manual Review", reason |-> "low confidence"]
  ELSE IF email_type = "Unknown/Unclear"
    THEN [automation_allowed |-> FALSE, status |-> "Manual Review", reason |-> "cannot classify"]
  ELSE IF email_type = "RFQ/Bid Request"
    THEN [automation_allowed |-> TRUE, status |-> "Pending Review", reason |-> "high confidence RFQ"]
  ELSE IF email_type = "Invoice/Billing"
    THEN [automation_allowed |-> TRUE, status |-> "Finance Review", reason |-> "high confidence invoice"]
  ELSE [automation_allowed |-> FALSE, status |-> "Manual Review", reason |-> "unknown type"]

\* DecisionEngine.applyRules: ordered rules, first match wins
applyRules(email_type, confidence_score) ==
  IF email_type = "Urgent Site Issue"
    THEN [automation_allowed |-> FALSE, status |-> "Escalated", reason |-> "urgent"]
  ELSE IF confidence_score < confidenceThreshold
    THEN [automation_allowed |-> FALSE, status |-> "Manual Review", reason |-> "low confidence"]
  ELSE IF email_type = "Unknown/Unclear"
    THEN [automation_allowed |-> FALSE, status |-> "Manual Review", reason |-> "cannot classify"]
  ELSE IF email_type = "RFQ/Bid Request"
    THEN [automation_allowed |-> TRUE, status |-> "Pending Review", reason |-> "high confidence RFQ"]
  ELSE IF email_type = "Invoice/Billing"
    THEN [automation_allowed |-> TRUE, status |-> "Finance Review", reason |-> "high confidence invoice"]
  ELSE [automation_allowed |-> FALSE, status |-> "Manual Review", reason |-> "unknown type"]

\* ---------------------------------------------------------------------
\* Idle values: the pipeline in the rule-table specification and back
\* ---------------------------------------------------------------------

PipelineIdle ==
  /\ httpResponse = NoReply
  /\ sanitized = <<>>
  /\ emailStatus = "none"
  /\ emailPriority = "null"
  /\ analysisRow = NoAnalysis
  /\ workflows = <<>>
  /\ audit = <<>>
  /\ storeFailures = 0
  /\ mailAttempts = 0
  /\ mailDelivered = 0
  /\ mailWaits = <<>>
  /\ template = NoTemplate
  /\ classifierCalls = 0
  /\ classifierFailures = 0
  /\ response = NoResponse
  /\ late = NoLate
  /\ waits = <<>>
  /\ pcA = "idle"
  /\ attempt = 1
  /\ parsed = NoAnalysis
  /\ pcD = "idle"
  /\ decisionArgs = NoInput
  /\ decision = NoDecision
  /\ decisionResult = NoDecision
  /\ pcW = "idle"
  /\ wAnalysis = NoAnalysis
  /\ wResult = NoResult
  /\ sendAttempt = 1
  /\ sendResult = NoSend
  /\ execResult = NoExec

emailVars == <<variant, ingestVars, storeVars, mailVars, classifierVars, analyzerVars,
               decisionVars, workflowVars>>

pipelineVars == <<retry, emailVars>>

\* ---------------------------------------------------------------------
\* Rule-table specification: one input, evaluated repeatedly
\* ---------------------------------------------------------------------

InitRules ==
  /\ confidenceThreshold \in ThresholdSamples
  /\ ruleIn \in [email_type : RuleTypes, confidence_score : 0..Scale]
  /\ ruleOut = <<>>
  /\ variant = "strict"
  /\ ingestion = "background"
  /\ payload = NoPayload
  /\ validation = NoValidation
  /\ PipelineIdle
  /\ retry = NoRetry

\* EvaluateRules with the threshold lowered by each evaluation
EvaluateRulesDrifting ==
  /\ ruleIn.email_type # "none"
  /\ Len(ruleOut) < MaxEvals
  /\ ruleOut' = Append(ruleOut, applyRules(ruleIn.email_type, ruleIn.confidence_score))
  /\ confidenceThreshold' = confidenceThreshold - 10
  /\ UNCHANGED <<ruleIn, pipelineVars>>

\* a caller evaluates applyRules(ruleIn.email_type, ruleIn.confidence_score):
\* the function reads its two arguments and this.confidenceThreshold, and writes nothing
EvaluateRules ==
  /\ ruleIn.email_type # "none"
  /\ Len(ruleOut) < MaxEvals
  /\ ruleOut' = Append(ruleOut, applyRules(ruleIn.email_type, ruleIn.confidence_score))
  /\ UNCHANGED <<confidenceThreshold, ruleIn, pipelineVars>>

NextRules == EvaluateRules

SpecRules == InitRules /\ [][NextRules]_vars

\* ---------------------------------------------------------------------
\* Record Store and Audit Logger
\* ---------------------------------------------------------------------

\* DatabaseService.retryOperation, seen from the caller: the operation's result (TRUE),
\* or its last error rethrown once every attempt has failed (FALSE)
StoreOutcomes == IF storeFailures < MaxStoreFailures THEN BOOLEAN ELSE {TRUE}

\* _safeLog leaving an entry behind even when the insert failed
SafeLogAlways(ok, action_type) == audit' = Append(audit, action_type)

\* AuditLogger._safeLog: the entry is inserted, or the insert's error is swallowed
SafeLog(ok, action_type) == audit' = IF ok THEN Append(audit, action_type) ELSE audit

Tally(ok) == storeFailures' = IF ok THEN storeFailures ELSE storeFailures + 1

\* 2 to the power n
RECURSIVE Pow2(_)
Pow2(n) == IF n = 0 THEN 1 ELSE 2 * Pow2(n - 1)

\* ---------------------------------------------------------------------
\* Record Store: retryOperation
\* ---------------------------------------------------------------------

\* retryOperation waiting after every failed attempt, the last one included
RetryAttemptAlwaysWaits ==
  /\ retry.outcome = "running"
  /\ \E r \in RetryValues \cup {"throw"} :
       retry' =
         IF r # "throw"
           THEN [retry EXCEPT !.calls = @ + 1, !.outcome = "returned", !.value = r]
         ELSE IF retry.attempt = retry.maxRetries
           THEN [retry EXCEPT !.calls = @ + 1, !.outcome = "thrown",
                              !.waits = Append(@, Pow2(retry.attempt - 1) * retry.retryDelayMs)]
         ELSE [retry EXCEPT !.calls = @ + 1, !.attempt = @ + 1,
                            !.waits = Append(@, Pow2(retry.attempt - 1) * retry.retryDelayMs)]
  /\ UNCHANGED <<confidenceThreshold, ruleVars, emailVars>>

\* one iteration of retryOperation's loop: the operation is awaited; its result is
\* returned, or its error is rethrown on the last attempt, or the loop sleeps
\* Math.pow(2, attempt - 1) * retryDelayMs and goes on
RetryAttempt ==
  /\ retry.outcome = "running"
  /\ \E r \in RetryValues \cup {"throw"} :
       retry' =
         IF r # "throw"
           THEN [retry EXCEPT !.calls = @ + 1, !.outcome = "returned", !.value = r]
         ELSE IF retry.attempt = retry.maxRetries
           THEN [retry EXCEPT !.calls = @ + 1, !.outcome = "thrown"]
         ELSE [retry EXCEPT !.calls = @ + 1, !.attempt = @ + 1,
                            !.waits = Append(@, Pow2(retry.attempt - 1) * retry.retryDelayMs)]
  /\ UNCHANGED <<confidenceThreshold, ruleVars, emailVars>>

\* ---------------------------------------------------------------------
\* Record Store specification: one call of retryOperation
\* ---------------------------------------------------------------------

\* retryOperation(operation, maxRetries) has just been called
InitRetry ==
  /\ confidenceThreshold = DefaultThreshold
  /\ ruleIn = NoInput
  /\ ruleOut = <<>>
  /\ variant = "retry"
  /\ ingestion = "background"
  /\ payload = NoPayload
  /\ validation = NoValidation
  /\ PipelineIdle
  /\ \E m \in 1..MaxRetryBudget, d \in RetryDelaySamples :
       retry = [maxRetries |-> m, retryDelayMs |-> d, attempt |-> 1, calls |-> 0,
                waits |-> <<>>, outcome |-> "running", value |-> "none"]

NextRetry == RetryAttempt

SpecRetry == InitRetry /\ [][NextRetry]_vars

\* ---------------------------------------------------------------------
\* Validator
\* ---------------------------------------------------------------------

\* what \s and String.prototype.trim take for whitespace among the characters of the
\* samples: the space and the vertical tab \x0B
IsWhitespace(c) == c \in {" ", "VT"}

\* JavaScript truthiness of a field value
Truthy(v) == IF v.kind = "string" THEN v.chars # <<>> ELSE v.kind # "undefined"

IsString(v) == v.kind = "string"

RECURSIVE TrimStart(_)
TrimStart(s) == IF s # <<>> /\ IsWhitespace(Head(s)) THEN TrimStart(Tail(s)) ELSE s

RECURSIVE TrimEnd(_)
TrimEnd(s) ==
  IF s # <<>> /\ IsWhitespace(s[Len(s)]) THEN TrimEnd(SubSeq(s, 1, Len(s) - 1)) ELSE s

\* String.prototype.trim
trim(s) == TrimEnd(TrimStart(s))

\* isValidEmail: /^[^\s@]+@[^\s@]+\.[^\s@]+$/ tested on the value converted to a string
isValidEmail(v) ==
  LET s == v.chars IN
  /\ \A k \in 1..Len(s) : ~IsWhitespace(s[k])
  /\ \E i \in 2..Len(s) :
       /\ s[i] = "@"
       /\ \A k \in 1..Len(s) : s[k] = "@" => k = i
       /\ \E j \in (i + 2)..(Len(s) - 1) : s[j] = "."

\* the error of a required field, if it has one
Required(v, name) ==
  IF ~Truthy(v) \/ ~IsString(v) THEN <<name \o " is required and must be a string">> ELSE <<>>

\* part_002's extra check of a field: a string that is empty once trimmed
NotEmpty(v, name) ==
  IF Truthy(v) /\ IsString(v) /\ trim(v.chars) = <<>>
    THEN <<name \o " cannot be empty">> ELSE <<>>

BadFormat(v) ==
  IF Truthy(v) /\ ~isValidEmail(v) THEN <<"from_email must be a valid email address">>
  ELSE <<>>

Verdict(errors) == [valid |-> errors = <<>>, errors |-> errors]

\* validatePayload returning at the first violation found
validatePayloadFirstError(p) ==
  IF p.is_null THEN Verdict(<<"Request body is required">>)
  ELSE IF Required(p.from_email, "from_email") # <<>>
    THEN Verdict(Required(p.from_email, "from_email"))
  ELSE IF Required(p.subject, "subject") # <<>> THEN Verdict(Required(p.subject, "subject"))
  ELSE IF Required(p.body, "body") # <<>> THEN Verdict(Required(p.body, "body"))
  ELSE Verdict(BadFormat(p.from_email))

\* EmailIngestionService.validatePayload, services/EmailIngestionService.js
validatePayload(p) ==
  IF p.is_null THEN Verdict(<<"Request body is required">>)
  ELSE Verdict(Required(p.from_email, "from_email") \o Required(p.subject, "subject")
               \o Required(p.body, "body") \o BadFormat(p.from_email))

\* EmailIngestionService.validatePayload of the earlier service, with its checks for
\* strings that are empty after trimming
validatePayloadEarlier(p) ==
  IF p.is_null THEN Verdict(<<"Request body is required">>)
  ELSE Verdict(Required(p.from_email, "from_email") \o Required(p.subject, "subject")
               \o Required(p.body, "body") \o BadFormat(p.from_email)
               \o NotEmpty(p.from_email, "from_email") \o NotEmpty(p.subject, "subject")
               \o NotEmpty(p.body, "body"))

\* the validator of the deployed ingestion service
Validate(p) ==
  IF ingestion = "background" THEN validatePayload(p) ELSE validatePayloadEarlier(p)

\* values of from_email among the payloads validated
FromEmailSamples ==
  {Undefined, NumberFive, Str(<<>>), Str(<<" ">>), Str(<<"a", "b">>),
   Str(<<"a", "@", "b">>), Str(<<"a", "@", "b", ".", "c">>),
   Str(<<" ", "a", "@", "b", ".", "c">>), Str(<<"a", "@", "@", "b", ".", "c">>),
   Str(<<"@", "b", ".", "c">>), Str(<<"a", "@", "b", ".">>)}

\* values of subject and body among the payloads validated
TextSamples ==
  {Undefined, NumberFive}
  \cup {Str(t) : t \in UNION {[1..n -> {"s", " "}] : n \in 0..MaxTextLen}}

Payloads ==
  {NoPayload}
  \cup [is_null : {FALSE}, from_email : FromEmailSamples, subject : TextSamples,
        body : TextSamples]

\* a payload every validator accepts
ValidPayload == [is_null |-> FALSE, from_email |-> Str(<<"a", "@", "b", ".", "c">>),
                 subject |-> Str(<<"s">>), body |-> Str(<<"s">>)]

\* the requests the pipeline specification receives
PipelinePayloads == {ValidPayload, [ValidPayload EXCEPT !.subject = Undefined]}

\* ---------------------------------------------------------------------
\* Validator specification: one payload, validated once
\* ---------------------------------------------------------------------

InitValidate ==
  /\ confidenceThreshold = DefaultThreshold
  /\ ruleIn = NoInput
  /\ ruleOut = <<>>
  /\ variant = "strict"
  /\ ingestion \in {"background", "awaited"}
  /\ payload \in Payloads
  /\ validation = NoValidation
  /\ PipelineIdle
  /\ retry = NoRetry

\* a caller evaluates validatePayload(payload)
ValidatePayload ==
  /\ validation = NoValidation
  /\ validation' = Validate(payload)
  /\ UNCHANGED <<retry, confidenceThreshold, ruleVars, variant, ingestion, payload, httpResponse,
                 sanitized, storeVars, mailVars, classifierVars, analyzerVars, decisionVars,
                 workflowVars>>

NextValidate == ValidatePayload

SpecValidate == InitValidate /\ [][NextValidate]_vars

\* ---------------------------------------------------------------------
\* Sanitizer
\* ---------------------------------------------------------------------

\* characters of the texts sanitized: a letter, the space, NUL (\0), SOH (\x01, a
\* control character that is not whitespace) and VT (\x0B, a control character that
\* trim also takes for whitespace)
SanitizeChars == {"s", " ", "NUL", "SOH", "VT"}

\* .replace(/\0/g, '')
RemoveNul(s) == SelectSeq(s, LAMBDA c : c # "NUL")

\* .replace(/[\x00-\x08\x0B\x0C\x0E-\x1F\x7F]/g, '')
RemoveControl(s) == SelectSeq(s, LAMBDA c : c \notin {"NUL", "SOH", "VT"})

\* sanitizeInput with trim applied before the control characters are removed
sanitizeInputTrimFirst(v) ==
  IF ~IsString(v) THEN v ELSE Str(RemoveControl(RemoveNul(trim(v.chars))))

\* EmailIngestionService.sanitizeInput
sanitizeInput(v) ==
  IF ~IsString(v) THEN v ELSE Str(trim(RemoveControl(RemoveNul(v.chars))))

\* the texts sanitized
SanitizeTexts ==
  {NumberFive} \cup {Str(t) : t \in UNION {[1..n -> SanitizeChars] : n \in 0..MaxSanitizeLen}}

\* ---------------------------------------------------------------------
\* Sanitizer specification: one text, sanitized, and the result sanitized again
\* ---------------------------------------------------------------------

InitSanitize ==
  /\ confidenceThreshold = DefaultThreshold
  /\ ruleIn = NoInput
  /\ ruleOut = <<>>
  /\ variant = "strict"
  /\ ingestion = "background"
  /\ payload \in [is_null : {FALSE}, from_email : {ValidPayload.from_email},
                  subject : {ValidPayload.subject}, body : SanitizeTexts]
  /\ validation = NoValidation
  /\ PipelineIdle
  /\ retry = NoRetry

\* a caller evaluates sanitizeInput on the body, then on what the last call returned
SanitizeInput ==
  /\ Len(sanitized) < 2
  /\ sanitized' = Append(sanitized, sanitizeInput(IF sanitized = <<>> THEN payload.body
                                                  ELSE sanitized[Len(sanitized)]))
  /\ UNCHANGED <<retry, confidenceThreshold, ruleVars, variant, ingestion, payload, validation,
                 httpResponse, storeVars, mailVars, classifierVars, analyzerVars,
                 decisionVars, workflowVars>>

NextSanitize == SanitizeInput

SpecSanitize == InitSanitize /\ [][NextSanitize]_vars

\* ---------------------------------------------------------------------
\* Inbound webhook and ingestion
\* ---------------------------------------------------------------------

\* Webhook without the return that follows the 400: the rejected payload is processed
WebhookNoReturn ==
  /\ pcA = "idle"
  /\ \E p \in PipelinePayloads :
       /\ payload' = p
       /\ validation' = Validate(p)
       /\ httpResponse' = IF ~Validate(p).valid THEN [status |-> 400, email_id |-> FALSE]
                          ELSE IF ingestion = "background"
                            THEN [status |-> 200, email_id |-> FALSE]
                          ELSE httpResponse
       /\ pcA' = "insert"
  /\ UNCHANGED <<retry, confidenceThreshold, ruleVars, variant, ingestion, sanitized, storeVars,
                 mailVars, classifierVars, attempt, parsed, waits, decisionVars, workflowVars>>

\* POST /inbound up to its first await. emailRoutes.js validates, answers 400 or 200 and
\* starts processEmailInBackground; the earlier route awaits processIncomingEmail, which
\* validates and goes on to insertEmail
Webhook ==
  /\ pcA = "idle"
  /\ \E p \in PipelinePayloads :
       /\ payload' = p
       /\ validation' = Validate(p)
       /\ httpResponse' = IF ~Validate(p).valid THEN [status |-> 400, email_id |-> FALSE]
                          ELSE IF ingestion = "background"
                            THEN [status |-> 200, email_id |-> FALSE]
                          ELSE httpResponse
       /\ pcA' = IF Validate(p).valid THEN "insert" ELSE "done"
  /\ UNCHANGED <<retry, confidenceThreshold, ruleVars, variant, ingestion, sanitized, storeVars,
                 mailVars, classifierVars, attempt, parsed, waits, decisionVars, workflowVars>>

\* insertEmail of the sanitized fields, with status Received. processEmailInBackground
\* then calls analyzeEmail, and its catch ends the task on an error; processIncomingEmail
\* goes on to logEmailReceived, or to its catch
StoreEmail ==
  /\ pcA = "insert"
  /\ \E ok \in StoreOutcomes :
       /\ Tally(ok)
       /\ emailStatus' = IF ok THEN "Received" ELSE "none"
       /\ pcA' = IF ingestion = "background"
                   THEN (IF ok THEN "call" ELSE "done")
                   ELSE (IF ok THEN "logreceived" ELSE "ingesterror")
  /\ UNCHANGED <<retry, confidenceThreshold, ruleVars, variant, ingestVars, emailPriority,
                 analysisRow, workflows, audit, mailVars, classifierVars, attempt, parsed, waits,
                 decisionVars, workflowVars>>

\* processIncomingEmail: logEmailReceived, analyzeEmail is called without being awaited,
\* the success result is returned and the route answers 200 with the email_id
LogEmailReceived ==
  /\ pcA = "logreceived"
  /\ \E ok \in StoreOutcomes :
       /\ Tally(ok)
       /\ SafeLog(ok, "email_received")
  /\ httpResponse' = [status |-> 200, email_id |-> TRUE]
  /\ pcA' = "call"
  /\ UNCHANGED <<retry, confidenceThreshold, ruleVars, variant, ingestion, payload, validation,
                 sanitized, emailStatus, emailPriority, analysisRow, workflows, mailVars,
                 classifierVars, attempt, parsed, waits, decisionVars, workflowVars>>

\* processIncomingEmail's catch: logSystemError and {success: false} is returned, which
\* the route answers with 400
IngestError ==
  /\ pcA = "ingesterror"
  /\ \E ok \in StoreOutcomes :
       /\ Tally(ok)
       /\ SafeLog(ok, "system_error")
  /\ httpResponse' = [status |-> 400, email_id |-> FALSE]
  /\ pcA' = "done"
  /\ UNCHANGED <<retry, confidenceThreshold, ruleVars, variant, ingestion, payload, validation,
                 sanitized, emailStatus, emailPriority, analysisRow, workflows, mailVars,
                 classifierVars, attempt, parsed, waits, decisionVars, workflowVars>>

\* ---------------------------------------------------------------------
\* Analyzer
\* ---------------------------------------------------------------------

Min(a, b) == IF a < b THEN a ELSE b

Max(a, b) == IF a > b THEN a ELSE b

\* parseResponse's safe default (its catch branch)
DegradedAnalysis ==
  [email_type |-> "Unknown/Unclear", urgency_level |-> "Medium", confidence_score |-> 0,
   deadline |-> FALSE, reasoning |-> "parse failure"]

\* parseResponse without its Math.max(0, Math.min(1, ...))
parseResponseNoClamp(r) ==
  IF r.kind # "json" THEN DegradedAnalysis
  ELSE [email_type |-> IF r.email_type \in EmailTypes THEN r.email_type ELSE "Unknown/Unclear",
        urgency_level |-> IF r.urgency_level \in UrgencyLevels THEN r.urgency_level ELSE "Medium",
        confidence_score |-> IF r.email_type \in EmailTypes THEN r.confidence_score ELSE 0,
        deadline |-> r.deadline,
        reasoning |-> "ai"]

\* parseResponse without its checks against validTypes and validUrgency
parseResponseNoCoerce(r) ==
  IF r.kind # "json" THEN DegradedAnalysis
  ELSE [email_type |-> r.email_type,
        urgency_level |-> r.urgency_level,
        confidence_score |-> Max(0, Min(Scale, r.confidence_score)),
        deadline |-> r.deadline,
        reasoning |-> "ai"]

\* AIAnalysisService.parseResponse
parseResponse(r) ==
  IF r.kind # "json" THEN DegradedAnalysis
  ELSE [email_type |-> IF r.email_type \in EmailTypes THEN r.email_type ELSE "Unknown/Unclear",
        urgency_level |-> IF r.urgency_level \in UrgencyLevels THEN r.urgency_level ELSE "Medium",
        confidence_score |-> IF r.email_type \in EmailTypes
                               THEN Max(0, Min(Scale, r.confidence_score))
                               ELSE 0,
        deadline |-> r.deadline,
        reasoning |-> "ai"]

\* the failed Analysis with the fallback confidence in place of 0
FailedAnalysisHalf ==
  [email_type |-> "Unknown/Unclear", urgency_level |-> "Medium",
   confidence_score |-> FallbackConfidence, deadline |-> FALSE, reasoning |-> "analysis failed"]

\* the Analysis the retry variant stores once every attempt has failed
FailedAnalysis ==
  [email_type |-> "Unknown/Unclear", urgency_level |-> "Medium", confidence_score |-> 0,
   deadline |-> FALSE, reasoning |-> "analysis failed"]

\* a call of makeDecision up to its first await: the rules are applied
StartDecision(email_type, confidence_score) ==
  /\ decisionArgs' = [email_type |-> email_type, confidence_score |-> confidence_score]
  /\ decision' = applyRules(email_type, confidence_score)
  /\ decisionResult' = NoDecision
  /\ pcD' = "update"

\* the catch of an attempt with one attempt more than maxRetries allows
AttemptFailedExtra ==
  /\ pcA' = IF variant = "retry" /\ attempt <= AnalyzerMaxRetries THEN "call" ELSE "failed"
  /\ attempt' = IF variant = "retry" /\ attempt <= AnalyzerMaxRetries THEN attempt + 1 ELSE attempt
  /\ waits' = IF variant = "retry" /\ attempt <= AnalyzerMaxRetries
                THEN Append(waits, RetryDelayMs)
                ELSE waits
  /\ parsed' = NoAnalysis

\* the catch of an attempt: the retry variant waits and loops while attempts remain
AttemptFailed ==
  /\ pcA' = IF variant = "retry" /\ attempt < AnalyzerMaxRetries THEN "call" ELSE "failed"
  /\ attempt' = IF variant = "retry" /\ attempt < AnalyzerMaxRetries THEN attempt + 1 ELSE attempt
  /\ waits' = IF variant = "retry" /\ attempt < AnalyzerMaxRetries
                THEN Append(waits, RetryDelayMs)
                ELSE waits
  /\ parsed' = NoAnalysis

\* CallClassifier with an unusable response text treated like an empty one: the attempt
\* fails
CallClassifierParseThrows ==
  /\ pcA = "call"
  /\ \E r \in ClassifierOutcomes :
       /\ response' = r
       /\ classifierCalls' = classifierCalls + 1
       /\ classifierFailures' = IF r.kind = "fail" THEN classifierFailures + 1
                                ELSE classifierFailures
       /\ \E timedOut \in IF r.kind = "fail" THEN BOOLEAN ELSE {FALSE} :
            late' = IF timedOut THEN [late EXCEPT !.pending = @ + 1] ELSE late
       /\ IF r.kind \in {"fail", "empty", "garbage"}
            THEN AttemptFailed
            ELSE /\ parsed' = parseResponse(r)
                 /\ pcA' = "store"
                 /\ attempt' = attempt
                 /\ waits' = waits
  /\ UNCHANGED <<retry, confidenceThreshold, ruleVars, variant, ingestVars, storeVars, mailVars,
                 decisionVars, workflowVars>>

\* one classifier call under the hard timeout, then parseResponse
CallClassifier ==
  /\ pcA = "call"
  /\ \E r \in ClassifierOutcomes :
       /\ response' = r
       /\ classifierCalls' = classifierCalls + 1
       /\ classifierFailures' = IF r.kind = "fail" THEN classifierFailures + 1
                                ELSE classifierFailures
       /\ \E timedOut \in IF r.kind = "fail" THEN BOOLEAN ELSE {FALSE} :
            late' = IF timedOut THEN [late EXCEPT !.pending = @ + 1] ELSE late
       /\ IF r.kind \in {"fail", "empty"}
            THEN AttemptFailed
            ELSE /\ parsed' = parseResponse(r)
                 /\ pcA' = "store"
                 /\ attempt' = attempt
                 /\ waits' = waits
  /\ UNCHANGED <<retry, confidenceThreshold, ruleVars, variant, ingestVars, storeVars, mailVars,
                 decisionVars, workflowVars>>

\* LateResponse with the response of an abandoned request handled like one that won the
\* race: it is parsed and inserted as the email's Analysis
LateResponseAccepted ==
  /\ late.pending > 0
  /\ \E r \in ClassifierOutcomes :
       /\ late' = [pending |-> late.pending - 1, discarded |-> late.discarded + 1]
       /\ analysisRow' = IF r.kind \in {"json", "garbage"} /\ analysisRow = NoAnalysis
                           THEN parseResponse(r)
                           ELSE analysisRow
  /\ UNCHANGED <<retry, confidenceThreshold, ruleVars, variant, ingestVars, emailStatus,
                 emailPriority, workflows, audit, storeFailures, mailVars, classifierCalls,
                 classifierFailures, response, analyzerVars, decisionVars, workflowVars>>

\* a request the timeout left in flight settles: Promise.race has already rejected, so
\* whatever the request resolves or rejects with reaches no continuation
LateResponse ==
  /\ late.pending > 0
  /\ late' = [pending |-> late.pending - 1, discarded |-> late.discarded + 1]
  /\ UNCHANGED <<retry, confidenceThreshold, ruleVars, variant, ingestVars, storeVars,
                 mailVars, classifierCalls, classifierFailures, response, analyzerVars,
                 decisionVars, workflowVars>>

\* StoreAnalysis without the return that follows a stored Analysis: the loop goes on
StoreAnalysisNoReturn ==
  /\ pcA = "store"
  /\ \E ok \in StoreOutcomes :
       /\ Tally(ok)
       /\ IF ok /\ analysisRow = NoAnalysis
            THEN /\ analysisRow' = parsed
                 /\ AttemptFailed
            ELSE /\ analysisRow' = analysisRow
                 /\ AttemptFailed
  /\ UNCHANGED <<retry, confidenceThreshold, ruleVars, variant, ingestVars, emailStatus, emailPriority,
                 workflows, audit, mailVars, classifierVars, decisionVars, workflowVars>>

\* insertAnalysis of the parsed result; the store refuses a second row for the email
StoreAnalysis ==
  /\ pcA = "store"
  /\ \E ok \in StoreOutcomes :
       /\ Tally(ok)
       /\ IF ok /\ analysisRow = NoAnalysis
            THEN /\ analysisRow' = parsed
                 /\ pcA' = "logsuccess"
                 /\ UNCHANGED <<attempt, parsed, waits>>
            ELSE /\ analysisRow' = analysisRow
                 /\ AttemptFailed
  /\ UNCHANGED <<retry, confidenceThreshold, ruleVars, variant, ingestVars, emailStatus, emailPriority,
                 workflows, audit, mailVars, classifierVars, decisionVars, workflowVars>>

\* logAIAnalysisSuccess, then makeDecision is called: awaited by the strict variant,
\* not awaited by the retry variant, which returns
LogAnalysisSuccess ==
  /\ pcA = "logsuccess"
  /\ \E ok \in StoreOutcomes :
       /\ Tally(ok)
       /\ SafeLog(ok, "ai_analysis_success")
  /\ StartDecision(parsed.email_type, parsed.confidence_score)
  /\ pcA' = IF variant = "retry" THEN "done" ELSE "await"
  /\ UNCHANGED <<retry, confidenceThreshold, ruleVars, variant, ingestVars, emailStatus, emailPriority,
                 analysisRow, workflows, mailVars, classifierVars, attempt, parsed, waits,
                 workflowVars>>

\* logAIAnalysisFailure once the attempts are used up; the strict variant then calls
\* makeDecision with the fallback classification, the retry variant goes on to store
\* the failed Analysis
LogAnalysisFailure ==
  /\ pcA = "failed"
  /\ \E ok \in StoreOutcomes :
       /\ Tally(ok)
       /\ SafeLog(ok, "ai_analysis_failure")
  /\ IF variant = "retry"
       THEN /\ pcA' = "storefailed"
            /\ UNCHANGED decisionVars
       ELSE /\ pcA' = "await"
            /\ StartDecision("Unknown/Unclear", FallbackConfidence)
  /\ UNCHANGED <<retry, confidenceThreshold, ruleVars, variant, ingestVars, emailStatus, emailPriority,
                 analysisRow, workflows, mailVars, classifierVars, attempt, parsed, waits,
                 workflowVars>>

\* retry variant: the failed Analysis is inserted (an insert error is swallowed) and
\* analyzeEmail returns its failure result
StoreFailedAnalysis ==
  /\ pcA = "storefailed"
  /\ \E ok \in StoreOutcomes :
       /\ Tally(ok)
       /\ analysisRow' = IF ok /\ analysisRow = NoAnalysis THEN FailedAnalysis ELSE analysisRow
  /\ pcA' = "done"
  /\ UNCHANGED <<retry, confidenceThreshold, ruleVars, variant, ingestVars, emailStatus, emailPriority,
                 workflows, audit, mailVars, classifierVars, attempt, parsed, waits,
                 decisionVars, workflowVars>>

\* AnalyzerReturn treating a makeDecision that returned success: false as thrown: the
\* catch runs and calls makeDecision with the fallback classification
AnalyzerReturnDecidesAgain ==
  /\ pcA = "await"
  /\ pcD = "done"
  /\ IF decisionResult.reason = "decision engine error" /\ decisionArgs.confidence_score # FallbackConfidence
       THEN /\ pcA' = "await"
            /\ StartDecision("Unknown/Unclear", FallbackConfidence)
       ELSE /\ pcA' = "done"
            /\ UNCHANGED decisionVars
  /\ UNCHANGED <<retry, confidenceThreshold, ruleVars, variant, ingestVars, storeVars, mailVars,
                 classifierVars, attempt, parsed, waits, workflowVars>>

\* strict variant: the awaited makeDecision has returned, and so does analyzeEmail
AnalyzerReturn ==
  /\ pcA = "await"
  /\ pcD = "done"
  /\ pcA' = "done"
  /\ UNCHANGED <<retry, confidenceThreshold, ruleVars, variant, ingestVars, storeVars, mailVars,
                 classifierVars, attempt, parsed, waits, decisionVars, workflowVars>>

\* ---------------------------------------------------------------------
\* Decision Engine: makeDecision
\* ---------------------------------------------------------------------

\* the decision makeDecision's catch returns
ErrorDecision ==
  [automation_allowed |-> FALSE, status |-> "Manual Review", reason |-> "decision engine error"]

\* UpdateStatus with the Decision Engine flagging an escalated email as Critical itself
UpdateStatusSetsPriority ==
  /\ pcD = "update"
  /\ \E ok \in StoreOutcomes :
       /\ Tally(ok)
       /\ emailStatus' = IF ok THEN decision.status ELSE emailStatus
       /\ emailPriority' = IF ok /\ decision.status = "Escalated" THEN "Critical"
                           ELSE emailPriority
       /\ pcD' = IF ~ok THEN "error"
                 ELSE IF ~decision.automation_allowed THEN "logblocked"
                 ELSE IF decision.status = "Manual Review" THEN "logmanual"
                 ELSE "fetch"
  /\ UNCHANGED <<retry, confidenceThreshold, ruleVars, variant, ingestVars, analysisRow,
                 workflows, audit, mailVars, classifierVars, analyzerVars,
                 decisionArgs, decision, decisionResult, workflowVars>>

\* UpdateStatus with a failed status write logged and passed over: makeDecision goes on
UpdateStatusSwallowsError ==
  /\ pcD = "update"
  /\ \E ok \in StoreOutcomes :
       /\ Tally(ok)
       /\ emailStatus' = IF ok THEN decision.status ELSE emailStatus
       /\ pcD' = IF ~decision.automation_allowed THEN "logblocked"
                 ELSE IF decision.status = "Manual Review" THEN "logmanual"
                 ELSE "fetch"
  /\ UNCHANGED <<retry, confidenceThreshold, ruleVars, variant, ingestVars, emailPriority, analysisRow,
                 workflows, audit, mailVars, classifierVars, analyzerVars,
                 decisionArgs, decision, decisionResult, workflowVars>>

\* updateEmailStatus(email_id, decision.status); an error goes to the catch
UpdateStatus ==
  /\ pcD = "update"
  /\ \E ok \in StoreOutcomes :
       /\ Tally(ok)
       /\ emailStatus' = IF ok THEN decision.status ELSE emailStatus
       /\ pcD' = IF ~ok THEN "error"
                 ELSE IF ~decision.automation_allowed THEN "logblocked"
                 ELSE IF decision.status = "Manual Review" THEN "logmanual"
                 ELSE "fetch"
  /\ UNCHANGED <<retry, confidenceThreshold, ruleVars, variant, ingestVars, emailPriority, analysisRow,
                 workflows, audit, mailVars, classifierVars, analyzerVars,
                 decisionArgs, decision, decisionResult, workflowVars>>

\* if (!decision.automation_allowed) logAutomationBlocked
LogAutomationBlocked ==
  /\ pcD = "logblocked"
  /\ \E ok \in StoreOutcomes :
       /\ Tally(ok)
       /\ SafeLog(ok, "automation_blocked")
  /\ pcD' = IF decision.status = "Manual Review" THEN "logmanual" ELSE "fetch"
  /\ UNCHANGED <<retry, confidenceThreshold, ruleVars, variant, ingestVars, emailStatus, emailPriority,
                 analysisRow, workflows, mailVars, classifierVars, analyzerVars,
                 decisionArgs, decision, decisionResult, workflowVars>>

\* if (decision.status === 'Manual Review') logManualReviewTriggered
LogManualReview ==
  /\ pcD = "logmanual"
  /\ \E ok \in StoreOutcomes :
       /\ Tally(ok)
       /\ SafeLog(ok, "manual_review_triggered")
  /\ pcD' = "fetch"
  /\ UNCHANGED <<retry, confidenceThreshold, ruleVars, variant, ingestVars, emailStatus, emailPriority,
                 analysisRow, workflows, mailVars, classifierVars, analyzerVars,
                 decisionArgs, decision, decisionResult, workflowVars>>

\* getAnalysisByEmailId (a .single() select: no row is an error too); with the row,
\* executeWorkflow is called without being awaited and makeDecision returns
FetchAnalysis ==
  /\ pcD = "fetch"
  /\ \E ok \in StoreOutcomes :
       /\ Tally(ok)
       /\ IF ok /\ analysisRow # NoAnalysis
            THEN /\ pcD' = "done"
                 /\ decisionResult' = decision
                 /\ pcW' = "getemail"
                 /\ wAnalysis' = [email_type |-> decisionArgs.email_type,
                                  urgency_level |-> analysisRow.urgency_level,
                                  confidence_score |-> decisionArgs.confidence_score,
                                  deadline |-> analysisRow.deadline,
                                  reasoning |-> analysisRow.reasoning]
            ELSE /\ pcD' = "error"
                 /\ UNCHANGED <<decisionResult, pcW, wAnalysis>>
  /\ UNCHANGED <<retry, confidenceThreshold, ruleVars, variant, ingestVars, emailStatus, emailPriority,
                 analysisRow, workflows, audit, mailVars, classifierVars, analyzerVars,
                 decisionArgs, decision, wResult, sendAttempt, sendResult, execResult>>

\* makeDecision's catch: logSystemError, and the Manual Review decision is returned
DecisionError ==
  /\ pcD = "error"
  /\ \E ok \in StoreOutcomes :
       /\ Tally(ok)
       /\ SafeLog(ok, "system_error")
  /\ decisionResult' = ErrorDecision
  /\ pcD' = "done"
  /\ UNCHANGED <<retry, confidenceThreshold, ruleVars, variant, ingestVars, emailStatus, emailPriority,
                 analysisRow, workflows, mailVars, classifierVars, analyzerVars,
                 decisionArgs, decision, workflowVars>>

\* ---------------------------------------------------------------------
\* Workflow Executor and Mail Sender
\* ---------------------------------------------------------------------

\* the switch of executeWorkflow without its 'Urgent Site Issue' case
HandlerNoUrgent(email_type) ==
  IF email_type = "RFQ/Bid Request" THEN "rfq"
  ELSE IF email_type = "Invoice/Billing" THEN "invoice"
  ELSE "unknown"

\* the switch of executeWorkflow
Handler(email_type) ==
  IF email_type = "RFQ/Bid Request" THEN "rfq"
  ELSE IF email_type = "Urgent Site Issue" THEN "urgent"
  ELSE IF email_type = "Invoice/Billing" THEN "invoice"
  ELSE "unknown"

\* the handlers' test before sending, with the gate left out
SendAlways(d) == TRUE

\* the handlers' test before sending: if (decision.automation_allowed)
SendAllowed(d) == d.automation_allowed

\* getEmailById, then the handler runs up to its first await
GetEmail ==
  /\ pcW = "getemail"
  /\ \E ok \in StoreOutcomes :
       /\ Tally(ok)
       /\ IF ~ok
            THEN /\ pcW' = "wferror"
                 /\ UNCHANGED <<wResult, sendAttempt>>
            ELSE LET h == Handler(wAnalysis.email_type) IN
                 /\ sendAttempt' = 1
                 /\ pcW' = IF h \in {"rfq", "urgent"} THEN "priority"
                           ELSE IF h = "invoice" /\ SendAllowed(decision) THEN "send"
                           ELSE "record"
                 /\ wResult' =
                      IF h = "invoice" /\ ~SendAllowed(decision)
                        THEN [success |-> TRUE, email_sent |-> FALSE,
                              actions_taken |-> <<"Automation blocked - no email sent",
                                                  "Routed to finance team">>]
                      ELSE IF h = "unknown"
                        THEN [success |-> TRUE, email_sent |-> FALSE,
                              actions_taken |-> <<"Email type unclear",
                                                  "NO automated email sent",
                                                  "AI reasoning">>]
                      ELSE [success |-> TRUE, email_sent |-> FALSE, actions_taken |-> <<>>]
  /\ UNCHANGED <<retry, confidenceThreshold, ruleVars, variant, ingestVars, emailStatus, emailPriority,
                 analysisRow, workflows, audit, mailVars, classifierVars, analyzerVars,
                 decisionVars, wAnalysis, sendResult, execResult>>

\* the RFQ handler's first action: `Set priority to ${priority}`
SetPriorityAction(priority) ==
  IF priority = "High" THEN "Set priority to High" ELSE "Set priority to Medium"

\* UpdatePriority with the Urgent-Issue handler sending an acknowledgment when the
\* decision allows automation, as the RFQ handler does
UpdatePriorityUrgentSends ==
  /\ pcW = "priority"
  /\ LET h == Handler(wAnalysis.email_type)
         priority == IF h = "urgent" THEN "Critical"
                     ELSE IF wAnalysis.deadline THEN "High" ELSE "Medium"
     IN \E ok \in StoreOutcomes :
          /\ Tally(ok)
          /\ emailPriority' = IF ok THEN priority ELSE emailPriority
          /\ pcW' = IF ok /\ SendAllowed(decision) THEN "send" ELSE "record"
          /\ wResult' =
               IF ~ok
                 THEN [success |-> FALSE, email_sent |-> FALSE, actions_taken |-> <<"Error">>]
               ELSE IF h = "urgent"
                 THEN [success |-> TRUE, email_sent |-> FALSE,
                       actions_taken |-> <<"Flagged as Critical",
                                           "Escalated for immediate human attention",
                                           "NO automated email sent (safety protocol)">>]
               ELSE IF SendAllowed(decision)
                 THEN [success |-> TRUE, email_sent |-> FALSE,
                       actions_taken |-> <<SetPriorityAction(priority)>>]
               ELSE [success |-> TRUE, email_sent |-> FALSE,
                     actions_taken |-> <<SetPriorityAction(priority),
                                         "Automation blocked - no email sent">>]
  /\ UNCHANGED <<retry, confidenceThreshold, ruleVars, variant, ingestVars, emailStatus, analysisRow,
                 workflows, audit, mailVars, classifierVars, analyzerVars, decisionVars,
                 wAnalysis, sendAttempt, sendResult, execResult>>

\* UpdatePriority with the RFQ priority High only when automation is allowed as well
UpdatePriorityGated ==
  /\ pcW = "priority"
  /\ LET h == Handler(wAnalysis.email_type)
         priority == IF h = "urgent" THEN "Critical"
                     ELSE IF wAnalysis.deadline /\ SendAllowed(decision) THEN "High"
                     ELSE "Medium"
     IN \E ok \in StoreOutcomes :
          /\ Tally(ok)
          /\ emailPriority' = IF ok THEN priority ELSE emailPriority
          /\ pcW' = IF ok /\ h = "rfq" /\ SendAllowed(decision) THEN "send" ELSE "record"
          /\ wResult' =
               IF ~ok
                 THEN [success |-> FALSE, email_sent |-> FALSE, actions_taken |-> <<"Error">>]
               ELSE IF h = "urgent"
                 THEN [success |-> TRUE, email_sent |-> FALSE,
                       actions_taken |-> <<"Flagged as Critical",
                                           "Escalated for immediate human attention",
                                           "NO automated email sent (safety protocol)">>]
               ELSE IF SendAllowed(decision)
                 THEN [success |-> TRUE, email_sent |-> FALSE,
                       actions_taken |-> <<SetPriorityAction(priority)>>]
               ELSE [success |-> TRUE, email_sent |-> FALSE,
                     actions_taken |-> <<SetPriorityAction(priority),
                                         "Automation blocked - no email sent">>]
  /\ UNCHANGED <<retry, confidenceThreshold, ruleVars, variant, ingestVars, emailStatus, analysisRow,
                 workflows, audit, mailVars, classifierVars, analyzerVars, decisionVars,
                 wAnalysis, sendAttempt, sendResult, execResult>>

\* UpdatePriority with the blocked RFQ handler recording the blocked action alone
UpdatePriorityBlockedSole ==
  /\ pcW = "priority"
  /\ LET h == Handler(wAnalysis.email_type)
         priority == IF h = "urgent" THEN "Critical"
                     ELSE IF wAnalysis.deadline THEN "High" ELSE "Medium"
     IN \E ok \in StoreOutcomes :
          /\ Tally(ok)
          /\ emailPriority' = IF ok THEN priority ELSE emailPriority
          /\ pcW' = IF ok /\ h = "rfq" /\ SendAllowed(decision) THEN "send" ELSE "record"
          /\ wResult' =
               IF ~ok
                 THEN [success |-> FALSE, email_sent |-> FALSE, actions_taken |-> <<"Error">>]
               ELSE IF h = "urgent"
                 THEN [success |-> TRUE, email_sent |-> FALSE,
                       actions_taken |-> <<"Flagged as Critical",
                                           "Escalated for immediate human attention",
                                           "NO automated email sent (safety protocol)">>]
               ELSE IF SendAllowed(decision)
                 THEN [success |-> TRUE, email_sent |-> FALSE,
                       actions_taken |-> <<SetPriorityAction(priority)>>]
               ELSE [success |-> TRUE, email_sent |-> FALSE,
                     actions_taken |-> <<"Automation blocked - no email sent">>]
  /\ UNCHANGED <<retry, confidenceThreshold, ruleVars, variant, ingestVars, emailStatus, analysisRow,
                 workflows, audit, mailVars, classifierVars, analyzerVars, decisionVars,
                 wAnalysis, sendAttempt, sendResult, execResult>>

\* updateEmailPriority of the RFQ handler (High with a deadline, else Medium) and of
\* the Urgent-Issue handler (Critical); an error goes to the handler's catch
UpdatePriority ==
  /\ pcW = "priority"
  /\ LET h == Handler(wAnalysis.email_type)
         priority == IF h = "urgent" THEN "Critical"
                     ELSE IF wAnalysis.deadline THEN "High" ELSE "Medium"
     IN \E ok \in StoreOutcomes :
          /\ Tally(ok)
          /\ emailPriority' = IF ok THEN priority ELSE emailPriority
          /\ pcW' = IF ok /\ h = "rfq" /\ SendAllowed(decision) THEN "send" ELSE "record"
          /\ wResult' =
               IF ~ok
                 THEN [success |-> FALSE, email_sent |-> FALSE, actions_taken |-> <<"Error">>]
               ELSE IF h = "urgent"
                 THEN [success |-> TRUE, email_sent |-> FALSE,
                       actions_taken |-> <<"Flagged as Critical",
                                           "Escalated for immediate human attention",
                                           "NO automated email sent (safety protocol)">>]
               ELSE IF SendAllowed(decision)
                 THEN [success |-> TRUE, email_sent |-> FALSE,
                       actions_taken |-> <<SetPriorityAction(priority)>>]
               ELSE [success |-> TRUE, email_sent |-> FALSE,
                     actions_taken |-> <<SetPriorityAction(priority),
                                         "Automation blocked - no email sent">>]
  /\ UNCHANGED <<retry, confidenceThreshold, ruleVars, variant, ingestVars, emailStatus, analysisRow,
                 workflows, audit, mailVars, classifierVars, analyzerVars, decisionVars,
                 wAnalysis, sendAttempt, sendResult, execResult>>

\* the actions a handler appends after the send: the invoice handler always ends
\* with the routing action
AfterSend(first) ==
  IF Handler(wAnalysis.email_type) = "invoice"
    THEN wResult.actions_taken \o <<first, "Routed to finance team">>
    ELSE Append(wResult.actions_taken, first)

\* sendWithRetry waiting the same delay after every failed attempt
SendDelayFixed(a) == SendBaseDelayMs

\* sendWithRetry's wait after a failed attempt: Math.pow(2, attempt - 1) * 1000
SendDelay(a) == Pow2(a - 1) * SendBaseDelayMs

\* SendAttempt with the loop bound one too high (attempt <= maxRetries + 2)
SendAttemptExtra ==
  /\ pcW = "send"
  /\ mailAttempts' = mailAttempts + 1
  /\ \E delivered \in BOOLEAN :
       /\ mailDelivered' = IF delivered THEN mailDelivered + 1 ELSE mailDelivered
       /\ pcW' = IF delivered THEN "logsent"
                 ELSE IF sendAttempt < SenderMaxRetries + 2 THEN "send"
                 ELSE "logsendfailed"
       /\ sendAttempt' = IF ~delivered /\ sendAttempt < SenderMaxRetries + 2
                           THEN sendAttempt + 1 ELSE sendAttempt
       /\ mailWaits' = IF ~delivered /\ sendAttempt < SenderMaxRetries + 2
                         THEN Append(mailWaits, SendDelay(sendAttempt))
                         ELSE mailWaits
  /\ template' = template
  /\ UNCHANGED <<retry, confidenceThreshold, ruleVars, variant, ingestVars, storeVars, classifierVars,
                 analyzerVars, decisionVars, wAnalysis, wResult, sendResult, execResult>>

\* sendWithRetry: one transporter.sendMail attempt; a failed one is followed by a
\* delay and the next attempt while attempts remain
SendAttempt ==
  /\ pcW = "send"
  /\ mailAttempts' = mailAttempts + 1
  /\ \E delivered \in BOOLEAN :
       /\ mailDelivered' = IF delivered THEN mailDelivered + 1 ELSE mailDelivered
       /\ pcW' = IF delivered THEN "logsent"
                 ELSE IF sendAttempt < SenderMaxRetries + 1 THEN "send"
                 ELSE "logsendfailed"
       /\ sendAttempt' = IF ~delivered /\ sendAttempt < SenderMaxRetries + 1
                           THEN sendAttempt + 1 ELSE sendAttempt
       /\ mailWaits' = IF ~delivered /\ sendAttempt < SenderMaxRetries + 1
                         THEN Append(mailWaits, SendDelay(sendAttempt))
                         ELSE mailWaits
  /\ template' = template
  /\ UNCHANGED <<retry, confidenceThreshold, ruleVars, variant, ingestVars, storeVars, classifierVars,
                 analyzerVars, decisionVars, wAnalysis, wResult, sendResult, execResult>>

\* LogEmailSent with the handler's `emailSent = true` left out
LogEmailSentFlagLost ==
  /\ pcW = "logsent"
  /\ \E ok \in StoreOutcomes :
       /\ Tally(ok)
       /\ SafeLog(ok, "email_sent")
  /\ wResult' = [success |-> TRUE, email_sent |-> FALSE,
                 actions_taken |-> AfterSend("Sent acknowledgment email")]
  /\ sendResult' = [returned |-> TRUE, success |-> TRUE, attempt |-> sendAttempt]
  /\ pcW' = "record"
  /\ UNCHANGED <<retry, confidenceThreshold, ruleVars, variant, ingestVars, emailStatus, emailPriority,
                 analysisRow, workflows, mailVars, classifierVars, analyzerVars,
                 decisionVars, wAnalysis, sendAttempt, execResult>>

\* logEmailSent; sendWithRetry returns success and the handler records the send
LogEmailSent ==
  /\ pcW = "logsent"
  /\ \E ok \in StoreOutcomes :
       /\ Tally(ok)
       /\ SafeLog(ok, "email_sent")
  /\ wResult' = IF template # NoTemplate THEN wResult
                 ELSE [success |-> TRUE, email_sent |-> TRUE,
                       actions_taken |-> AfterSend("Sent acknowledgment email")]
  /\ sendResult' = [returned |-> TRUE, success |-> TRUE, attempt |-> sendAttempt]
  /\ pcW' = IF template # NoTemplate THEN "done" ELSE "record"
  /\ UNCHANGED <<retry, confidenceThreshold, ruleVars, variant, ingestVars, emailStatus, emailPriority,
                 analysisRow, workflows, mailVars, classifierVars, analyzerVars,
                 decisionVars, wAnalysis, sendAttempt, execResult>>

\* logEmailSendFailed after the last attempt; the handler records the failure
LogEmailSendFailed ==
  /\ pcW = "logsendfailed"
  /\ \E ok \in StoreOutcomes :
       /\ Tally(ok)
       /\ SafeLog(ok, "email_send_failed")
  /\ wResult' = IF template # NoTemplate THEN wResult
                 ELSE [success |-> TRUE, email_sent |-> FALSE,
                       actions_taken |-> AfterSend("Failed to send email")]
  /\ sendResult' = [returned |-> TRUE, success |-> FALSE, attempt |-> SenderMaxRetries + 1]
  /\ pcW' = IF template # NoTemplate THEN "done" ELSE "record"
  /\ UNCHANGED <<retry, confidenceThreshold, ruleVars, variant, ingestVars, emailStatus, emailPriority,
                 analysisRow, workflows, mailVars, classifierVars, analyzerVars,
                 decisionVars, wAnalysis, sendAttempt, execResult>>

\* how the generation call of generateAIResponse may end: a completion with text, a
\* completion with no content, a rejected call (transport error or client timeout)
GenerationOutcomes == {"text", "empty", "fail"}

\* generateAIResponse with its catch rethrowing: sendAIResponse's catch returns the
\* failure and nothing is sent
GenerateAIResponseRethrow ==
  /\ pcW = "generate"
  /\ \E g \in GenerationOutcomes :
       IF g = "text"
         THEN /\ template' = [text |-> "ai", call |-> g]
              /\ pcW' = "send"
              /\ sendResult' = sendResult
         ELSE /\ template' = [text |-> "failed", call |-> g]
              /\ pcW' = "done"
              /\ sendResult' = [returned |-> TRUE, success |-> FALSE, attempt |-> 0]
  /\ sendAttempt' = 1
  /\ UNCHANGED <<retry, confidenceThreshold, ruleVars, variant, ingestVars, storeVars, mailAttempts,
                 mailDelivered, mailWaits, classifierVars, analyzerVars, decisionVars,
                 wAnalysis, wResult, execResult>>

\* sendAIResponse up to sendWithRetry: generateAIResponse returns the generated text,
\* or from its catch the canned text, and sendWithRetry is called with it
GenerateAIResponse ==
  /\ pcW = "generate"
  /\ \E g \in GenerationOutcomes :
       template' = [text |-> IF g = "text" THEN "ai" ELSE "canned", call |-> g]
  /\ pcW' = "send"
  /\ sendAttempt' = 1
  /\ sendResult' = sendResult
  /\ UNCHANGED <<retry, confidenceThreshold, ruleVars, variant, ingestVars, storeVars, mailAttempts,
                 mailDelivered, mailWaits, classifierVars, analyzerVars, decisionVars,
                 wAnalysis, wResult, execResult>>

\* automation_used taken from the decision alone
AutomationUsedAllowedOnly(d, result) == d.automation_allowed

\* automation_used: decision.automation_allowed && result.email_sent
AutomationUsed(d, result) == d.automation_allowed /\ result.email_sent

\* insertWorkflow with automation_used = decision.automation_allowed && result.email_sent
RecordWorkflow ==
  /\ pcW = "record"
  /\ \E ok \in StoreOutcomes :
       /\ Tally(ok)
       /\ workflows' = IF ok
                         THEN Append(workflows,
                                [workflow_type |-> wAnalysis.email_type,
                                 automation_used |-> AutomationUsed(decision, wResult),
                                 actions_taken |-> wResult.actions_taken,
                                 success |-> wResult.success])
                         ELSE workflows
       /\ pcW' = IF ok THEN "logworkflow" ELSE "wferror"
  /\ UNCHANGED <<retry, confidenceThreshold, ruleVars, variant, ingestVars, emailStatus, emailPriority,
                 analysisRow, audit, mailVars, classifierVars, analyzerVars,
                 decisionVars, wAnalysis, wResult, sendAttempt, sendResult, execResult>>

\* logWorkflowExecuted, and executeWorkflow returns success
LogWorkflowExecuted ==
  /\ pcW = "logworkflow"
  /\ \E ok \in StoreOutcomes :
       /\ Tally(ok)
       /\ SafeLog(ok, "workflow_executed")
  /\ execResult' = [returned |-> TRUE, success |-> TRUE]
  /\ pcW' = "done"
  /\ UNCHANGED <<retry, confidenceThreshold, ruleVars, variant, ingestVars, emailStatus, emailPriority,
                 analysisRow, workflows, mailVars, classifierVars, analyzerVars,
                 decisionVars, wAnalysis, wResult, sendAttempt, sendResult>>

\* executeWorkflow's catch: logSystemError, and the failure result is returned
WorkflowError ==
  /\ pcW = "wferror"
  /\ \E ok \in StoreOutcomes :
       /\ Tally(ok)
       /\ SafeLog(ok, "system_error")
  /\ execResult' = [returned |-> TRUE, success |-> FALSE]
  /\ pcW' = "done"
  /\ UNCHANGED <<retry, confidenceThreshold, ruleVars, variant, ingestVars, emailStatus, emailPriority,
                 analysisRow, workflows, mailVars, classifierVars, analyzerVars,
                 decisionVars, wAnalysis, wResult, sendAttempt, sendResult>>

\* ---------------------------------------------------------------------
\* Pipeline specification: one inbound email
\* ---------------------------------------------------------------------

Init ==
  /\ confidenceThreshold = DefaultThreshold
  /\ ruleIn = NoInput
  /\ ruleOut = <<>>
  /\ variant \in {"retry", "strict"}
  /\ ingestion \in {"background", "awaited"}
  /\ payload = NoPayload
  /\ validation = NoValidation
  /\ PipelineIdle
  /\ retry = NoRetry

Next ==
  \/ Webhook
  \/ StoreEmail
  \/ LogEmailReceived
  \/ IngestError
  \/ CallClassifier
  \/ StoreAnalysis
  \/ LogAnalysisSuccess
  \/ LogAnalysisFailure
  \/ StoreFailedAnalysis
  \/ AnalyzerReturn
  \/ LateResponse
  \/ UpdateStatus
  \/ LogAutomationBlocked
  \/ LogManualReview
  \/ FetchAnalysis
  \/ DecisionError
  \/ GetEmail
  \/ UpdatePriority
  \/ SendAttempt
  \/ LogEmailSent
  \/ LogEmailSendFailed
  \/ RecordWorkflow
  \/ LogWorkflowExecuted
  \/ WorkflowError

Spec == Init /\ [][Next]_vars

\* the event loop runs every continuation that is ready: each awaited store, mail and
\* classifier call settles (the classifier call under its Promise.race timeout), so a
\* step that can be taken is taken
SpecFair == Spec /\ WF_vars(Next)

\* ---------------------------------------------------------------------
\* Workflow specification: executeWorkflow called with any decision and analysis
\* ---------------------------------------------------------------------

\* the decision objects a caller may hand to executeWorkflow
WorkflowDecisions ==
  [automation_allowed : BOOLEAN, status : TerminalStatuses, reason : {"caller"}]

\* the analysis objects a caller may hand to executeWorkflow
WorkflowAnalyses ==
  [email_type : RuleTypes, urgency_level : UrgencyLevels, confidence_score : {0, 90},
   deadline : BOOLEAN, reasoning : {"ai"}]

\* executeWorkflow(email_id, analysis, decision) has just been called for a stored email
InitWorkflow ==
  /\ confidenceThreshold = DefaultThreshold
  /\ ruleIn = NoInput
  /\ ruleOut = <<>>
  /\ variant = "retry"
  /\ ingestion = "background"
  /\ payload = ValidPayload
  /\ validation = Verdict(<<>>)
  /\ httpResponse = [status |-> 200, email_id |-> FALSE]
  /\ sanitized = <<>>
  /\ decision \in WorkflowDecisions
  /\ wAnalysis \in WorkflowAnalyses
  /\ decisionResult = decision
  /\ decisionArgs = [email_type |-> wAnalysis.email_type,
                     confidence_score |-> wAnalysis.confidence_score]
  /\ analysisRow = wAnalysis
  /\ emailStatus = decision.status
  /\ emailPriority = "null"
  /\ workflows = <<>>
  /\ audit = <<>>
  /\ storeFailures = 0
  /\ mailAttempts = 0
  /\ mailDelivered = 0
  /\ mailWaits = <<>>
  /\ template = NoTemplate
  /\ classifierCalls = 1
  /\ classifierFailures = 0
  /\ response = NoResponse
  /\ late = NoLate
  /\ waits = <<>>
  /\ pcA = "done"
  /\ attempt = 1
  /\ parsed = wAnalysis
  /\ pcD = "done"
  /\ pcW = "getemail"
  /\ wResult = NoResult
  /\ sendAttempt = 1
  /\ sendResult = NoSend
  /\ execResult = NoExec
  /\ retry = NoRetry

NextWorkflow ==
  \/ GetEmail
  \/ UpdatePriority
  \/ SendAttempt
  \/ LogEmailSent
  \/ LogEmailSendFailed
  \/ RecordWorkflow
  \/ LogWorkflowExecuted
  \/ WorkflowError

SpecWorkflow == InitWorkflow /\ [][NextWorkflow]_vars

\* ---------------------------------------------------------------------
\* Acknowledgment specification: sendAIResponse called for a stored email
\* ---------------------------------------------------------------------

\* sendAIResponse(email_id, recipientEmail, originalSubject, originalBody, emailType,
\* projectDetails) has just been called; the recipient, subject and body are text
InitAIResponse ==
  /\ confidenceThreshold = DefaultThreshold
  /\ ruleIn = NoInput
  /\ ruleOut = <<>>
  /\ variant = "retry"
  /\ ingestion = "background"
  /\ payload = ValidPayload
  /\ validation = Verdict(<<>>)
  /\ httpResponse = [status |-> 200, email_id |-> FALSE]
  /\ sanitized = <<>>
  /\ decision = NoDecision
  /\ wAnalysis \in WorkflowAnalyses
  /\ decisionResult = NoDecision
  /\ decisionArgs = NoInput
  /\ analysisRow = wAnalysis
  /\ emailStatus = "Received"
  /\ emailPriority = "null"
  /\ workflows = <<>>
  /\ audit = <<>>
  /\ storeFailures = 0
  /\ mailAttempts = 0
  /\ mailDelivered = 0
  /\ mailWaits = <<>>
  /\ template = NoTemplate
  /\ classifierCalls = 1
  /\ classifierFailures = 0
  /\ response = NoResponse
  /\ late = NoLate
  /\ waits = <<>>
  /\ pcA = "done"
  /\ attempt = 1
  /\ parsed = wAnalysis
  /\ pcD = "idle"
  /\ pcW = "generate"
  /\ wResult = NoResult
  /\ sendAttempt = 1
  /\ sendResult = NoSend
  /\ execResult = NoExec
  /\ retry = NoRetry

NextAIResponse ==
  \/ GenerateAIResponse
  \/ SendAttempt
  \/ LogEmailSent
  \/ LogEmailSendFailed

SpecAIResponse == InitAIResponse /\ [][NextAIResponse]_vars

\* every task of the pipeline has returned
PipelineDone ==
  /\ pcA = "done"
  /\ pcD \in {"idle", "done"}
  /\ pcW \in {"idle", "done"}

\* ---------------------------------------------------------------------
\* Properties of the rule table (checked under SpecRules)
\* ---------------------------------------------------------------------

Evaluated == Len(ruleOut) >= 1

\* C1: for every confidence score in [0,1], 1.0 included, every decision returned for
\* 'Urgent Site Issue' has automation_allowed = false and status = Escalated
C1_UrgentNeverAutomated ==
  \A i \in 1..Len(ruleOut) :
    ruleIn.email_type = "Urgent Site Issue"
      => /\ ruleOut[i].automation_allowed = FALSE
         /\ ruleOut[i].status = "Escalated"

\* an Urgent Site Issue has been decided at confidence 1.0
C1_Witness ==
  /\ Evaluated
  /\ ruleIn.email_type = "Urgent Site Issue"
  /\ ruleIn.confidence_score = Scale

\* C4: for every type other than 'Urgent Site Issue' and every confidence below the
\* threshold the decision has automation_allowed = false and status = Manual Review
C4_LowConfidenceManualReview ==
  \A i \in 1..Len(ruleOut) :
    (ruleIn.email_type # "Urgent Site Issue" /\ ruleIn.confidence_score < confidenceThreshold)
      => /\ ruleOut[i].automation_allowed = FALSE
         /\ ruleOut[i].status = "Manual Review"

\* an RFQ has been decided just below the default threshold
C4_Witness ==
  /\ Evaluated
  /\ confidenceThreshold = DefaultThreshold
  /\ ruleIn.email_type = "RFQ/Bid Request"
  /\ ruleIn.confidence_score = DefaultThreshold - 1

\* C5: at or above the threshold (the threshold itself included) RFQ/Bid Request gives
\* allowed with Pending Review, Invoice/Billing gives allowed with Finance Review, and
\* Unknown/Unclear and any unrecognized type give not allowed with Manual Review
C5_RuleTableAtOrAboveThreshold ==
  \A i \in 1..Len(ruleOut) :
    ruleIn.confidence_score >= confidenceThreshold
      => /\ ruleIn.email_type = "RFQ/Bid Request"
              => (ruleOut[i].automation_allowed /\ ruleOut[i].status = "Pending Review")
         /\ ruleIn.email_type = "Invoice/Billing"
              => (ruleOut[i].automation_allowed /\ ruleOut[i].status = "Finance Review")
         /\ ruleIn.email_type \in {"Unknown/Unclear", OtherType}
              => (~ruleOut[i].automation_allowed /\ ruleOut[i].status = "Manual Review")

\* an RFQ has been decided at exactly the default threshold
C5_Witness ==
  /\ Evaluated
  /\ confidenceThreshold = DefaultThreshold
  /\ ruleIn.email_type = "RFQ/Bid Request"
  /\ ruleIn.confidence_score = DefaultThreshold

Classified(t) == response.kind = "json" /\ response.email_type = t

\* every classifier call timed out or failed in transport
ClassifierAlwaysFailed == classifierCalls > 0 /\ classifierFailures = classifierCalls

AuditHas(action_type) == \E i \in 1..Len(audit) : audit[i] = action_type

\* C2 (as claimed): every stored email ends in a terminal status, and after total
\* classifier failure the Decision Engine has run on (Unknown/Unclear, 0.5)
C2_EveryEmailReachesTerminal ==
  (PipelineDone /\ emailStatus # "none" /\ storeFailures = 0)
    => /\ emailStatus \in TerminalStatuses
       /\ ClassifierAlwaysFailed
            => decisionArgs = [email_type |-> "Unknown/Unclear",
                               confidence_score |-> FallbackConfidence]

\* C3: mail has been attempted only if the decision computed for the email allowed
\* automation (RFQ/Bid Request or Invoice/Billing at or above the threshold), and never
\* for an email whose status is Escalated or Manual Review
C3_MailOnlyWhenAllowed ==
  /\ mailAttempts > 0
       => /\ decision.automation_allowed
          /\ decisionArgs.email_type \in {"RFQ/Bid Request", "Invoice/Billing"}
          /\ decisionArgs.confidence_score >= confidenceThreshold
  /\ emailStatus \in {"Escalated", "Manual Review"} => mailAttempts = 0

\* an acknowledgment has been delivered for an invoice
C3_Witness ==
  /\ mailDelivered > 0
  /\ decisionArgs.email_type = "Invoice/Billing"
  /\ emailStatus = "Finance Review"

\* C7: scenario A: the classifier returned RFQ/Bid Request at 0.9 and no store call and
\* no transport attempt failed; the pipeline ends with status Pending Review, one
\* acknowledgment sent and one WorkflowExecution, with automation_used = true
C7_ScenarioA ==
  (PipelineDone /\ Classified("RFQ/Bid Request") /\ response.confidence_score = 90
     /\ storeFailures = 0 /\ mailAttempts = mailDelivered)
    => /\ emailStatus = "Pending Review"
       /\ mailDelivered = 1
       /\ Len(workflows) = 1
       /\ workflows[1].automation_used

C7_Witness ==
  /\ PipelineDone /\ Classified("RFQ/Bid Request") /\ response.confidence_score = 90
  /\ storeFailures = 0 /\ mailAttempts = mailDelivered
  /\ pcW = "done"

\* C8 (as claimed): scenario B: every classifier call failed; the email's final status
\* is Manual Review and no mail was sent
C8_ScenarioBStatus ==
  (PipelineDone /\ emailStatus # "none" /\ ClassifierAlwaysFailed /\ storeFailures = 0)
    => /\ emailStatus = "Manual Review"
       /\ mailAttempts = 0

C10_ScenarioC ==
  (PipelineDone /\ Classified("Urgent Site Issue") /\ storeFailures = 0)
    => /\ emailStatus = "Escalated"
       /\ emailPriority = "Critical"
       /\ mailAttempts = 0

C10_Witness ==
  /\ PipelineDone /\ Classified("Urgent Site Issue") /\ storeFailures = 0
  /\ response.confidence_score = 99
  /\ pcW = "done"

\* ---------------------------------------------------------------------
\* Mail Sender, Audit Logger, Decision step and Workflow Executor contracts
\* (checked under Spec)
\* ---------------------------------------------------------------------

AuditCount(action_type) == Cardinality({i \in 1..Len(audit) : audit[i] = action_type})

\* C11: one send call makes at most maxRetries + 1 = 3 transport attempts and stops at
\* the first success; a success is returned with the number of the attempt that
\* succeeded (3 after two failures), a failure only after exactly 3 failed attempts; the
\* call writes at most one audit entry, of the kind that matches its result, and exactly
\* one when no store call failed
C11_SendWithRetry ==
  /\ mailAttempts <= SenderMaxRetries + 1
  /\ mailDelivered <= 1
  /\ pcW = "send" => mailDelivered = 0
  /\ AuditCount("email_sent") + AuditCount("email_send_failed") <= 1
  /\ ~sendResult.returned
       => AuditCount("email_sent") + AuditCount("email_send_failed") = 0
  /\ (sendResult.returned /\ sendResult.success)
       => /\ mailDelivered = 1
          /\ sendResult.attempt = mailAttempts
          /\ AuditCount("email_send_failed") = 0
          /\ storeFailures = 0 => AuditCount("email_sent") = 1
  /\ (sendResult.returned /\ ~sendResult.success)
       => /\ mailDelivered = 0
          /\ mailAttempts = SenderMaxRetries + 1
          /\ sendResult.attempt = SenderMaxRetries + 1
          /\ AuditCount("email_sent") = 0
          /\ storeFailures = 0 => AuditCount("email_send_failed") = 1

\* the transport failed twice and then succeeded: success is returned with attempt 3
\* and one EMAIL_SENT entry
C11_Witness ==
  /\ sendResult.returned /\ sendResult.success
  /\ sendResult.attempt = 3
  /\ mailAttempts = 3 /\ mailDelivered = 1
  /\ AuditCount("email_sent") = 1

\* where each task stands when it awaits a log operation, and the entry that operation
\* writes
LogEntryA == IF pcA = "logsuccess" THEN "ai_analysis_success" ELSE "ai_analysis_failure"

LogEntryD ==
  IF pcD = "logblocked" THEN "automation_blocked"
  ELSE IF pcD = "logmanual" THEN "manual_review_triggered"
  ELSE "system_error"

LogEntryW ==
  IF pcW = "logsent" THEN "email_sent"
  ELSE IF pcW = "logsendfailed" THEN "email_send_failed"
  ELSE IF pcW = "logworkflow" THEN "workflow_executed"
  ELSE "system_error"

\* where each caller goes on once its log operation has succeeded
AfterLogA ==
  IF pcA = "logsuccess" THEN (IF variant = "retry" THEN "done" ELSE "await")
  ELSE (IF variant = "retry" THEN "storefailed" ELSE "await")

AfterLogD ==
  IF pcD = "logblocked"
    THEN (IF decision.status = "Manual Review" THEN "logmanual" ELSE "fetch")
  ELSE IF pcD = "logmanual" THEN "fetch"
  ELSE "done"

AfterLogW == IF pcW \in {"logsent", "logsendfailed"} THEN "record" ELSE "done"

\* one log operation completes: its entry is appended when the insert succeeded, and
\* nothing is written when the insert failed; either way the caller is at the position
\* `after`, the one a successful log leads to
LogCompletes(entry, here, there, after) ==
  here # there
    => /\ there = after
       /\ storeFailures' = storeFailures => audit' = Append(audit, entry)
       /\ storeFailures' # storeFailures => audit' = audit

\* C12: no log operation raises: when the audit insert fails, the operation still
\* completes, the caller goes on exactly as after a successful log (it does not enter
\* its error path), and no audit entry is written
C12_AuditLoggerNeverRaises ==
  [][/\ pcA \in {"logsuccess", "failed"} => LogCompletes(LogEntryA, pcA, pcA', AfterLogA)
     /\ pcD \in {"logblocked", "logmanual", "error"}
          => LogCompletes(LogEntryD, pcD, pcD', AfterLogD)
     /\ pcW \in {"logsent", "logsendfailed", "logworkflow", "wferror"}
          => LogCompletes(LogEntryW, pcW, pcW', AfterLogW)]_vars

\* executeWorkflow has returned success although the insert of its WORKFLOW_EXECUTED
\* entry failed and left no entry
C12_Witness ==
  /\ execResult.returned /\ execResult.success
  /\ Len(workflows) = 1
  /\ storeFailures = 1
  /\ ~AuditHas("workflow_executed")

\* C13 (as claimed): a 200 response is sent only once the payload has been validated
\* and the email stored, and carries the email_id; no classifier call completes before
\* the response; a validation failure is answered with 400, and a failure to store the
\* email with 500
C13_ResponseAfterStorage ==
  /\ httpResponse.status = 200
       => /\ validation.valid
          /\ emailStatus # "none"
          /\ httpResponse.email_id
  /\ classifierCalls > 0 => httpResponse.status = 200
  /\ (pcA # "idle" /\ ~validation.valid) => httpResponse.status = 400
  /\ (pcA = "done" /\ validation.valid /\ emailStatus = "none") => httpResponse.status = 500

\* C14 (as claimed): when the Decision step has failed, the email's status is Manual
\* Review and the error is in the audit trail (its insert permitting); once the
\* Decision step has run the email is not in status Received
C14_DecisionFailureForcesManualReview ==
  /\ (pcD = "done" /\ decisionResult = ErrorDecision) => emailStatus = "Manual Review"
  /\ pcD = "done" => emailStatus # "Received"
  /\ (pcD = "done" /\ decisionResult = ErrorDecision /\ storeFailures = 0)
       => AuditHas("system_error")

\* the handler's own catch has run: its priority update failed
HandlerFailed == wResult.actions_taken = <<"Error">>

\* C15 (as claimed): when an error occurred inside a handler, executeWorkflow returns
\* success = false and the audit trail holds a SYSTEM_ERROR entry (the failed priority
\* update being the only store call that failed)
C15_HandlerErrorFailsExecute ==
  (execResult.returned /\ HandlerFailed)
    => /\ ~execResult.success
       /\ storeFailures = 1 => AuditHas("system_error")

\* C16: every persisted WorkflowExecution has automation_used = true exactly when the
\* decision allowed automation and the acknowledgment send returned success; after a
\* failed send, and under a decision that blocks automation, it is false
C16_AutomationUsed ==
  \A i \in 1..Len(workflows) :
    /\ workflows[i].automation_used
         <=> (decision.automation_allowed /\ sendResult.returned /\ sendResult.success)
    /\ workflows[i].automation_used => mailDelivered = 1
    /\ (sendResult.returned /\ ~sendResult.success) => ~workflows[i].automation_used
    /\ ~decision.automation_allowed => ~workflows[i].automation_used

\* a WorkflowExecution has been persisted for an allowed decision whose send failed
C16_Witness ==
  /\ Len(workflows) = 1
  /\ decision.automation_allowed
  /\ sendResult.returned /\ ~sendResult.success
  /\ ~workflows[1].automation_used

StoredFromResponse ==
  analysisRow.reasoning = "ai" /\ response.kind = "json" /\ response.email_type \in EmailTypes

\* C19: every stored Analysis has a confidence score in [0,1]; a reported confidence
\* above 1 (1.7) is stored as 1.0, one below 0 (-0.3) as 0.0, and one in range as
\* reported
C19_ConfidenceClamped ==
  /\ analysisRow # NoAnalysis
       => (0 <= analysisRow.confidence_score /\ analysisRow.confidence_score <= Scale)
  /\ StoredFromResponse
       => /\ response.confidence_score > Scale => analysisRow.confidence_score = Scale
          /\ response.confidence_score < 0 => analysisRow.confidence_score = 0
          /\ response.confidence_score \in 0..Scale
               => analysisRow.confidence_score = response.confidence_score

\* the classifier reported 1.7 and the Analysis is stored with 1.0
C19_Witness ==
  /\ StoredFromResponse
  /\ response.confidence_score = 170
  /\ analysisRow.confidence_score = Scale

\* C18 (as claimed): the Decision Engine runs only for an email whose Analysis has been
\* persisted, and the Workflow Executor is invoked only once the Decision Engine has
\* written the status it decided
C18_AnalysisBeforeDecision ==
  /\ pcD # "idle" => analysisRow # NoAnalysis
  /\ pcW # "idle" => (analysisRow # NoAnalysis /\ emailStatus = decision.status)

\* ---------------------------------------------------------------------
\* Properties of the validator (checked under SpecValidate)
\* ---------------------------------------------------------------------

Validated == validation # NoValidation

\* a required field that is absent, not text, or the empty string
Missing(v) == ~IsString(v) \/ v.chars = <<>>

\* a payload that meets the validator's contract: every required field is text that is
\* not empty once trimmed, and from_email has the shape local@domain.tld
WellFormed(p) ==
  /\ ~p.is_null
  /\ \A v \in {p.from_email, p.subject, p.body} : IsString(v) /\ trim(v.chars) # <<>>
  /\ isValidEmail(p.from_email)

HasError(e) == \E i \in 1..Len(validation.errors) : validation.errors[i] = e

\* C20: for a payload object, validatePayload returns valid with no errors when the
\* payload is well formed, and for each of from_email, subject and body that is missing
\* the returned list holds that field's error, whatever else is wrong with the payload
C20_ValidateCollectsAll ==
  (Validated /\ ~payload.is_null)
    => /\ WellFormed(payload) => (validation.valid /\ validation.errors = <<>>)
       /\ Missing(payload.from_email)
            => HasError("from_email is required and must be a string")
       /\ Missing(payload.subject) => HasError("subject is required and must be a string")
       /\ Missing(payload.body) => HasError("body is required and must be a string")
       /\ validation.valid <=> validation.errors = <<>>

\* a payload without any of the three fields has been validated: three errors
C20_Witness ==
  /\ Validated
  /\ ~payload.is_null
  /\ payload.from_email = Undefined /\ payload.subject = Undefined /\ payload.body = Undefined
  /\ Len(validation.errors) = 3

\* ---------------------------------------------------------------------
\* Properties of the sanitizer (checked under SpecSanitize)
\* ---------------------------------------------------------------------

\* C21: sanitizing a sanitized text changes nothing: sanitize(sanitize(s)) = sanitize(s),
\* also for texts that mix control characters with surrounding whitespace; a sanitized
\* text holds no control character and no surrounding whitespace
C21_SanitizeIdempotent ==
  /\ Len(sanitized) = 2 => sanitized[2] = sanitized[1]
  /\ \A i \in 1..Len(sanitized) :
       IsString(sanitized[i])
         => /\ RemoveControl(sanitized[i].chars) = sanitized[i].chars
            /\ trim(sanitized[i].chars) = sanitized[i].chars

\* the text <space, SOH, space, s> has been sanitized twice: a control character stood
\* between the surrounding whitespace and the text
C21_Witness ==
  /\ Len(sanitized) = 2
  /\ payload.body = Str(<<" ", "SOH", " ", "s">>)
  /\ sanitized[1] = Str(<<"s">>)

\* ---------------------------------------------------------------------
\* Properties of the pipeline, continued (checked under Spec)
\* ---------------------------------------------------------------------

\* C22 (as claimed): a failure of the detached background continuation is never visible
\* to the webhook caller, who keeps the 200 already sent, and is recorded as an audit
\* entry: when storing the email was the one store call that failed, the audit trail
\* holds an entry
C22_BackgroundFailureAudited ==
  /\ (ingestion = "background" /\ validation.valid /\ pcA # "idle")
       => httpResponse.status = 200
  /\ (ingestion = "background" /\ validation.valid /\ pcA = "done"
        /\ emailStatus = "none" /\ storeFailures = 1)
       => audit # <<>>

\* C23 (as claimed): once the Decision step has returned a decision with allowed = false
\* the audit trail holds an AUTOMATION_BLOCKED entry, and with status Manual Review a
\* MANUAL_REVIEW_TRIGGERED entry too (no audit insert having failed); the same on the
\* path where the Decision step failed and its decision defaulted to Manual Review
C23_BlockedDecisionAudited ==
  /\ (pcD = "done" /\ storeFailures = 0 /\ ~decisionResult.automation_allowed)
       => AuditHas("automation_blocked")
  /\ (pcD = "done" /\ storeFailures = 0 /\ decisionResult.status = "Manual Review")
       => AuditHas("manual_review_triggered")
  /\ (pcD = "done" /\ decisionResult = ErrorDecision /\ storeFailures = 1
        /\ AuditHas("system_error"))
       => /\ AuditHas("automation_blocked")
          /\ AuditHas("manual_review_triggered")

\* C24 (as claimed): once the Decision Engine has persisted a status and the pipeline has
\* come to rest (no store call having failed), the Workflow Executor has run with the
\* decision and the stored Analysis, and a WorkflowExecution record and a
\* WORKFLOW_EXECUTED audit entry are persisted; also for the decision taken after a
\* classifier failure
C24_DecisionTriggersWorkflow ==
  (PipelineDone /\ storeFailures = 0 /\ emailStatus \in TerminalStatuses)
    => /\ execResult.returned
       /\ wAnalysis.urgency_level = analysisRow.urgency_level
       /\ wAnalysis.deadline = analysisRow.deadline
       /\ Len(workflows) = 1
       /\ AuditHas("workflow_executed")

StoredFromObject == analysisRow.reasoning = "ai" /\ response.kind = "json"

\* C26: every stored Analysis has its type among the four email types and its urgency
\* among Low, Medium and High: a type outside the enumeration is stored as
\* Unknown/Unclear with confidence 0, an urgency outside it as Medium, and values inside
\* the enumerations are stored as reported
C26_AnalysisEnumsCoerced ==
  /\ analysisRow # NoAnalysis
       => /\ analysisRow.email_type \in EmailTypes
          /\ analysisRow.urgency_level \in UrgencyLevels
  /\ StoredFromObject
       => /\ response.email_type \notin EmailTypes
               => /\ analysisRow.email_type = "Unknown/Unclear"
                  /\ analysisRow.confidence_score = 0
          /\ response.email_type \in EmailTypes
               => analysisRow.email_type = response.email_type
          /\ response.urgency_level \notin UrgencyLevels
               => analysisRow.urgency_level = "Medium"
          /\ response.urgency_level \in UrgencyLevels
               => analysisRow.urgency_level = response.urgency_level

\* the classifier reported a type and an urgency outside the enumerations with
\* confidence 0.9, and the Analysis is stored as Unknown/Unclear, Medium, 0
C26_Witness ==
  /\ StoredFromObject
  /\ response.email_type = OtherType
  /\ response.urgency_level = "Bogus"
  /\ response.confidence_score = 90
  /\ analysisRow.email_type = "Unknown/Unclear"
  /\ analysisRow.urgency_level = "Medium"
  /\ analysisRow.confidence_score = 0

\* ---------------------------------------------------------------------
\* Properties of the analyzer's retry loop (checked under SpecFair)
\* ---------------------------------------------------------------------

UrgentHandler == Handler(wAnalysis.email_type) = "urgent"

\* C28: the Urgent-Issue handler sends no mail whatever the decision says: also under a
\* decision with automation_allowed = true there is no send attempt, the handler
\* reports email_sent = false, the priority it sets is Critical, and the recorded
\* WorkflowExecution has automation_used = false
C28_UrgentNeverSends ==
  UrgentHandler
    => /\ mailAttempts = 0
       /\ pcW \notin {"send", "logsent", "logsendfailed"}
       /\ ~wResult.email_sent
       /\ emailPriority \in {"null", "Critical"}
       /\ (pcW \in {"record", "logworkflow", "wferror", "done"} /\ wResult.success)
            => emailPriority = "Critical"
       /\ \A i \in 1..Len(workflows) : ~workflows[i].automation_used

\* the Urgent-Issue handler has run to the end under a decision that allows automation:
\* priority Critical, no mail, one WorkflowExecution with automation_used = false
C28_Witness ==
  /\ UrgentHandler
  /\ decision.automation_allowed
  /\ pcW = "done"
  /\ emailPriority = "Critical"
  /\ mailAttempts = 0
  /\ ~wResult.email_sent
  /\ Len(workflows) = 1
  /\ ~workflows[1].automation_used

\* the RFQ handler is the one that runs
RfqHandler == Handler(wAnalysis.email_type) = "rfq"

\* the handler has returned a result to executeWorkflow
HandlerReturned == wResult.actions_taken # <<>>

\* C29: the RFQ handler sets the email's priority to High if the analysis holds an
\* extracted deadline and to Medium otherwise, under a decision that allows automation
\* and under one that blocks it alike; nothing else changes the priority afterwards
C29_RfqPriority ==
  RfqHandler
    => /\ (HandlerReturned /\ wResult.success)
            => emailPriority = IF wAnalysis.deadline THEN "High" ELSE "Medium"
       /\ emailPriority \in {"null", IF wAnalysis.deadline THEN "High" ELSE "Medium"}

\* the RFQ handler has run to the end for an analysis with a deadline under a decision
\* that blocks automation, and the priority is High
C29_Witness ==
  /\ RfqHandler
  /\ wAnalysis.deadline
  /\ ~decision.automation_allowed
  /\ pcW = "done"
  /\ Len(workflows) = 1
  /\ emailPriority = "High"

\* C30 (as claimed): under a decision with allowed = false the RFQ handler sends no mail
\* and the workflow run's only action is the 'automation blocked' one
C30_BlockedRfqSoleAction ==
  (RfqHandler /\ ~decision.automation_allowed)
    => /\ mailAttempts = 0
       /\ (HandlerReturned /\ wResult.success)
            => wResult.actions_taken = <<"Automation blocked - no email sent">>
       /\ \A i \in 1..Len(workflows) :
            workflows[i].success
              => workflows[i].actions_taken = <<"Automation blocked - no email sent">>

\* C30 (amended): under a decision with allowed = false the RFQ handler sends no mail and
\* reports email_sent = false; the workflow run's actions are the 'Set priority to ...'
\* action followed by the 'automation blocked' action, or the error alone when the
\* priority update failed
C30_BlockedRfqActions ==
  (RfqHandler /\ ~decision.automation_allowed)
    => LET blocked == <<SetPriorityAction(IF wAnalysis.deadline THEN "High" ELSE "Medium"),
                        "Automation blocked - no email sent">>
       IN /\ mailAttempts = 0
          /\ pcW \notin {"send", "logsent", "logsendfailed"}
          /\ ~wResult.email_sent
          /\ HandlerReturned
               => wResult.actions_taken = IF wResult.success THEN blocked ELSE <<"Error">>
          /\ \A i \in 1..Len(workflows) :
               /\ workflows[i].actions_taken
                    = IF workflows[i].success THEN blocked ELSE <<"Error">>
               /\ ~workflows[i].automation_used

\* a blocked RFQ run has been recorded with its two actions and no mail attempt
C30_Witness ==
  /\ RfqHandler
  /\ ~decision.automation_allowed
  /\ pcW = "done"
  /\ mailAttempts = 0
  /\ Len(workflows) = 1
  /\ workflows[1].actions_taken
       = <<"Set priority to Medium", "Automation blocked - no email sent">>

\* ---------------------------------------------------------------------
\* Properties of the acknowledgment sender (checked under SpecAIResponse)
\* ---------------------------------------------------------------------

\* the generation call of generateAIResponse was made and failed
GenerationFailed == template.call \in {"empty", "fail"}

\* C31: when the call that personalizes the acknowledgment body fails, the canned text is
\* the body and sendWithRetry still runs with its whole retry budget: sendAIResponse
\* returns only after a delivered attempt or after maxRetries + 1 failed attempts
C31_CannedTemplateStillSent ==
  /\ template.call = "text" => template.text = "ai"
  /\ GenerationFailed
       => /\ template.text = "canned"
          /\ pcW \in {"send", "logsent", "logsendfailed", "done"}
          /\ pcW = "done"
               => /\ sendResult.returned
                  /\ mailAttempts >= 1
                  /\ sendResult.success <=> mailDelivered = 1
                  /\ ~sendResult.success => mailAttempts = SenderMaxRetries + 1

\* the generation call failed, the first send attempt failed too, and the canned text
\* was delivered by the second attempt
C31_Witness ==
  /\ template = [text |-> "canned", call |-> "fail"]
  /\ pcW = "done"
  /\ mailAttempts = 2
  /\ mailDelivered = 1
  /\ sendResult.success

\* ---------------------------------------------------------------------
\* Properties of the Record Store's retry (checked under SpecRetry)
\* ---------------------------------------------------------------------

\* C32: retryOperation makes at most maxRetries attempts; it returns the first successful
\* result and makes no attempt after it; after the k-th failed attempt that is not the
\* last it waits retryDelayMs * 2^(k-1); after the last failed attempt it rethrows
\* without waiting
C32_RetryOperation ==
  /\ [](/\ retry.calls <= retry.maxRetries
        /\ retry.attempt <= retry.maxRetries
        /\ \A k \in 1..Len(retry.waits) :
             retry.waits[k] = retry.retryDelayMs * Pow2(k - 1)
        /\ retry.outcome = "running"
             => Len(retry.waits) = retry.calls /\ retry.attempt = retry.calls + 1
        /\ retry.outcome = "returned"
             => /\ retry.value \in RetryValues
                /\ Len(retry.waits) = retry.calls - 1
        /\ retry.outcome = "thrown"
             => /\ retry.calls = retry.maxRetries
                /\ Len(retry.waits) = retry.maxRetries - 1)
  /\ [][retry.outcome \in {"returned", "thrown"} => retry' = retry]_vars

\* with the default budget of 3 and the default base delay, the first two attempts
\* failed, retryOperation waited 100 ms and 200 ms, and the third attempt returned
C32_Witness ==
  /\ retry.maxRetries = DefaultMaxRetries
  /\ retry.retryDelayMs = DefaultRetryDelayMs
  /\ retry.calls = 3
  /\ retry.waits = <<100, 200>>
  /\ retry.outcome = "returned"

\* the send attempts that have failed
FailedSends == mailAttempts - mailDelivered

\* C33: the Mail Sender waits 1000 * 2^(k-1) ms after its k-th failed attempt (1000 ms,
\* then 2000 ms) before attempt k + 1, and does not wait after the final failed attempt
C33_SendBackoff ==
  /\ \A k \in 1..Len(mailWaits) : mailWaits[k] = 1000 * Pow2(k - 1)
  /\ mailWaits \in {<<>>, <<1000>>, <<1000, 2000>>}
  /\ Len(mailWaits) = IF FailedSends = SenderMaxRetries + 1 THEN SenderMaxRetries
                      ELSE FailedSends
  /\ pcW = "send" => mailAttempts = Len(mailWaits)

\* all three attempts failed: the sender waited 1 s and 2 s and returned the failure
\* without a third wait
C33_Witness ==
  /\ mailAttempts = SenderMaxRetries + 1
  /\ mailDelivered = 0
  /\ mailWaits = <<1000, 2000>>
  /\ sendResult.returned /\ ~sendResult.success

\* ---------------------------------------------------------------------
\* Properties of the validator, continued (checked under SpecValidate)
\* ---------------------------------------------------------------------

\* a field that is text, not the empty string, and empty once trimmed
Blank(v) == IsString(v) /\ v.chars # <<>> /\ trim(v.chars) = <<>>

\* the error list names the field
FieldError(name) ==
  \E i \in 1..Len(validation.errors) :
    validation.errors[i] \in {name \o " is required and must be a string",
                              name \o " cannot be empty",
                              name \o " must be a valid email address"}

\* C34 (as claimed): a payload whose from_email, subject or body is text made of
\* whitespace only is reported invalid, with an error for that field
C34_BlankFieldRejected ==
  (Validated /\ ~payload.is_null)
    => /\ Blank(payload.from_email) => (~validation.valid /\ FieldError("from_email"))
       /\ Blank(payload.subject) => (~validation.valid /\ FieldError("subject"))
       /\ Blank(payload.body) => (~validation.valid /\ FieldError("body"))

\* ---------------------------------------------------------------------
\* Properties of the pipeline: rejected payloads, frames, ordering (checked under Spec)
\* ---------------------------------------------------------------------

\* the webhook has rejected the payload
Rejected == pcA # "idle" /\ ~validation.valid

\* C35: a payload that fails validation is answered with 400 and changes nothing: no
\* email is stored, no Analysis, WorkflowExecution or audit entry is written, no store,
\* classifier or mail call is made, no task is started, and no further step is taken for
\* the request
C35_RejectedPayloadChangesNothing ==
  /\ [](Rejected
          => /\ httpResponse.status = 400
             /\ emailStatus = "none"
             /\ emailPriority = "null"
             /\ analysisRow = NoAnalysis
             /\ workflows = <<>>
             /\ audit = <<>>
             /\ storeFailures = 0
             /\ classifierCalls = 0
             /\ mailAttempts = 0
             /\ pcA = "done" /\ pcD = "idle" /\ pcW = "idle")
  /\ [][Rejected => vars' = vars]_vars

\* a payload without a subject has been rejected
C35_Witness ==
  /\ Rejected
  /\ payload.subject = Undefined
  /\ httpResponse.status = 400
  /\ pcA = "done"

\* a step of the Analyzer, of the Decision Engine, of the Workflow Executor with its
\* handlers and the Mail Sender
AnalyzerStep ==
  pcA \in {"call", "store", "logsuccess", "failed", "storefailed", "await"} /\ pcA' # pcA

DecisionStep == pcD \notin {"idle", "done"} /\ pcD' # pcD

WorkflowStep == pcW \notin {"idle", "done"} /\ pcW' # pcW

\* C36: the status is written only by the Decision Engine's updateEmailStatus (after the
\* insert that creates the email as Received) and the priority only by a handler's
\* updateEmailPriority: no step of the Workflow Executor, its handlers or the Mail
\* Sender changes the status, no step of the Decision Engine changes the priority, and
\* no step of the Analyzer and no audit entry changes either
C36_StatusPriorityFrames ==
  [][/\ emailStatus' # emailStatus
          => \/ pcD = "update" /\ DecisionStep
             \/ pcA = "insert" /\ emailStatus = "none" /\ emailStatus' = "Received"
     /\ emailPriority' # emailPriority => (pcW = "priority" /\ WorkflowStep)
     /\ WorkflowStep => emailStatus' = emailStatus
     /\ DecisionStep => emailPriority' = emailPriority
     /\ AnalyzerStep => (emailStatus' = emailStatus /\ emailPriority' = emailPriority)
     /\ (audit' # audit \/ mailAttempts' # mailAttempts)
          => (emailStatus' = emailStatus /\ emailPriority' = emailPriority)]_vars

\* the Decision Engine has written the status and the RFQ handler the priority
C36_Witness ==
  /\ PipelineDone
  /\ emailStatus = "Pending Review"
  /\ emailPriority = "High"
  /\ Len(workflows) = 1

\* the statuses an email row can hold
EmailStatuses == {"Received"} \cup TerminalStatuses

\* C37: makeDecision runs at most once for the email; the status of the stored email is
\* always one of the enumerated statuses; it leaves Received for a terminal status at
\* most once, never returns to Received and never moves from one terminal status to
\* another; at most one WorkflowExecution is recorded
C37_SingleDecision ==
  /\ [](/\ emailStatus # "none" => emailStatus \in EmailStatuses
        /\ Len(workflows) <= 1)
  /\ [][/\ pcD' # pcD => pcD # "done"
        /\ (pcD' # pcD /\ pcD' = "update") => pcD = "idle"
        /\ pcD' # "idle" \/ pcD = "idle"
        /\ emailStatus \in TerminalStatuses => emailStatus' = emailStatus
        /\ emailStatus' = "Received" => emailStatus \in {"none", "Received"}
        /\ emailStatus # "none" => emailStatus' # "none"
        /\ (pcW' # pcW /\ pcW' = "getemail") => (pcW = "idle" /\ workflows = <<>>)]_vars

\* the email went from Received to Pending Review, its decision has returned and its one
\* WorkflowExecution is recorded
C37_Witness ==
  /\ PipelineDone
  /\ pcD = "done"
  /\ emailStatus = "Pending Review"
  /\ Len(workflows) = 1

\* the step is the hard timeout firing on a classifier call whose request stays in flight
TimeoutFires == late'.pending > late.pending

\* the step is the arrival of the response to a request the timeout had abandoned
LateArrival == late'.discarded > late.discarded

\* C38: when the hard timeout fires the attempt fails (no Analysis is parsed or stored
\* and the analyzer goes to its next attempt or to its failure path), and the response
\* that arrives afterwards changes nothing: no Analysis is persisted, no decision is
\* made, no status is written, and the analyzer, the Decision Engine and the workflow
\* stay where they are
C38_LateResponseDiscarded ==
  /\ [][TimeoutFires
          => /\ classifierFailures' = classifierFailures + 1
             /\ parsed' = NoAnalysis
             /\ analysisRow' = analysisRow
             /\ pcA' = IF variant = "retry" /\ attempt < AnalyzerMaxRetries
                         THEN "call" ELSE "failed"
             /\ attempt' = IF variant = "retry" /\ attempt < AnalyzerMaxRetries
                             THEN attempt + 1 ELSE attempt
             /\ UNCHANGED <<decisionVars, emailStatus>>]_vars
  /\ [][LateArrival
          => UNCHANGED <<storeVars, analyzerVars, decisionVars, workflowVars, mailVars,
                         classifierCalls, classifierFailures, response>>]_vars

\* the first attempt timed out, the second was analysed and decided, and the response
\* to the first request has arrived since
C38_Witness ==
  /\ late.discarded = 1
  /\ classifierCalls = 2
  /\ analysisRow # NoAnalysis /\ analysisRow # FailedAnalysis
  /\ emailStatus = "Pending Review"

\* the statuses under which an acknowledgment may go out
AcknowledgedStatuses == {"Pending Review", "Finance Review"}

\* C39: a mail send is attempted, and an EMAIL_SENT entry written, only when the
\* email's status is stored as Pending Review or Finance Review; makeDecision returns
\* the decision of its rule table at the step that starts the workflow, before any send
\* attempt, and what it returned is not changed by the workflow or the send afterwards
C39_SendAfterStatusPersisted ==
  /\ [](/\ mailAttempts > 0 => emailStatus \in AcknowledgedStatuses
        /\ AuditHas("email_sent") => emailStatus \in AcknowledgedStatuses
        /\ pcW # "idle" => (pcD = "done" /\ decisionResult = decision))
  /\ [][/\ (pcD # "done" /\ pcD' = "done" /\ pcW' # "idle")
             => (mailAttempts' = 0 /\ decisionResult' = decision /\ sendResult' = NoSend)
        /\ pcD = "done" => UNCHANGED <<pcD, decisionResult>>
        /\ mailAttempts' # mailAttempts => UNCHANGED <<emailStatus, decisionVars>>]_vars

\* the decision has been returned while the acknowledgment of a Pending Review email has
\* failed once and is about to be attempted again
C39_Witness ==
  /\ pcD = "done"
  /\ decisionResult.automation_allowed
  /\ emailStatus = "Pending Review"
  /\ pcW = "send"
  /\ mailAttempts = 1
  /\ mailDelivered = 0

====
